---- MODULE Spec2Model ----
(***************************************************************************)
(* A model of the site generator's pipeline (scripts/create-site.js) and   *)
(* of its library (scripts/lib): the counting Semaphore that admits        *)
(* backend calls, the task planner and batch loop of main, processBatch,   *)
(* the continuity context of the content parts, and the internal linker.   *)
(*                                                                         *)
(* The module holds several specifications over one set of variables; each *)
(* drives one part of the program and leaves the other parts idle:         *)
(*   SemSpec   Semaphore.run under arbitrary concurrent callers            *)
(*   PlanSpec  the task planner of main over arbitrary plans               *)
(*   Spec      a whole run of main: start-up, plan, batches, link, deploy  *)
(*   CtxSpec   the continuity context of the content parts of one task     *)
(*   LinkSpec  applyInternalLinks applied repeatedly to a content directory*)
(*   SimSpec   similarity applied to a pair of posts, in both orders        *)
(***************************************************************************)
EXTENDS Integers, Sequences, FiniteSets, TLC

(* ----------------------------------------------------------------------- *)
(* Bounds of the model                                                     *)
(* ----------------------------------------------------------------------- *)

\* callers of Semaphore.run in SemSpec
NumCallers == 3
\* the largest --concurrency value tried (0 stands for a missing/NaN value)
MaxConcurrency == 2
\* PlanSpec: clusters of a plan, keywords of a cluster, largest --max-posts
MaxClusters == 2
MaxKeywords == 2
MaxPostsPlanned == 3
\* Spec: largest --max-posts and --batch of a run, and the most outline
\* sections an outline flags for an image
MaxPostsRun == 3
MaxBatchSize == 2
MaxFlagged == 1
\* CtxSpec: the longest text a content-part call returns, in characters
MaxPartLen == 7000
\* LinkSpec: the files of the content directory, the pieces the body of
\* the document under study is made of, and the number of times
\* applyInternalLinks is applied
MaxDocs == 6
MaxPieces == 2
MaxPasses == 2
\* SimSpec: the keywords and the title words of a post
MaxSimKeywords == 2
MaxTitleWords == 1
\* the peers of the post whose related sets are computed
MaxPeers == 6
\* ComposeSpec: the sections of an outline
MaxSections == 2

(* ----------------------------------------------------------------------- *)
(* State                                                                   *)
(* ----------------------------------------------------------------------- *)

VARIABLES
  \* Semaphore (internalLinker.js 289-306)
  max,        \* this.max
  count,      \* this.count
  queue,      \* this.queue: the resolvers of the waiting callers, in push order
  cstate,     \* per caller of run: "idle" | "waiting" | "woken" | "running" | "done"
  outcome,    \* per caller: how its fn() ended: "none" | "ok" | "err"
  result,     \* per caller: what run() delivered to it: "none" | "ok" | "err"
  arrivals,   \* history: callers in the order they called run
  starts,     \* history: callers in the order their fn() was invoked
  wokenBy,    \* history: per caller, the caller whose finally block woke it (0: none)
  jobs        \* the runtime's promise-job queue, restricted to the continuations
              \* of woken waiters: they resume in the order they were resolved

semVars == <<max, count, queue, cstate, outcome, result, arrivals, starts, wokenBy, jobs>>

VARIABLES
  \* main (create-site.js 43-137)
  cfg,          \* the parsed options: maxPosts, batchSize, concurrency, ...
  mpc,          \* position of main
  plan,         \* the plan: a sequence of clusters
  targetTasks,  \* allTasks.slice(0, maxPosts)
  staticLeft,   \* generateStaticPages: completions still to make
  i,            \* the batch loop's variable
  invs,         \* the invocations of processBatch, in call order: each holds
                \* its batch (lo..hi of targetTasks), its position (pc, k, step,
                \* inflight), the locals of the current iteration and postMetas
  files,        \* the content directory: path -> document
  collabLog     \* history: the linker and the deployment steps main has
                \* called, in call order

mainVars == <<cfg, mpc, plan, targetTasks, staticLeft, i, invs, files, collabLog>>

VARIABLES
  \* processBatch, lines 155-159, and generateContentPart: texts are ropes
  ctxpc,            \* the content-part call in flight
  part1, part2,     \* the texts returned so far
  prev,             \* const prev (line 158)
  previousContent,  \* the previousContent argument of the call in flight
  promptContext     \* what the prompt of the call in flight holds of it

ctxVars == <<ctxpc, part1, part2, prev, previousContent, promptContext>>

VARIABLES
  \* applyInternalLinks (internalLinker.js 6-59)
  contentDir,   \* the .mdx files of contentDir: path -> [data, content]
  passes,       \* history: applications of applyInternalLinks so far
  afterFirst,   \* history: contentDir as the first application left it
  originalDir,  \* history: contentDir before the first application
  linkFault     \* the file operation that threw, if one did: [kind, path]

linkVars == <<contentDir, passes, afterFirst, originalDir, linkFault>>

VARIABLES
  \* similarity (internalLinker.js 61-68) applied to a pair of posts
  simPosts,    \* the two posts: <<a, b>>
  simScores    \* <<similarity(a, b), similarity(b, a)>> once computed

simVars == <<simPosts, simScores>>

VARIABLES
  \* applyInternalLinks, lines 36-52, applied to one post and its peers
  rankPost,    \* the post
  rankPeers,   \* clusterPosts: its peers, in input order
  rankOut      \* ranked, early and the items of the end block, once computed

rankVars == <<rankPost, rankPeers, rankOut>>

VARIABLES
  \* composeMdxBody (create-site.js 233-272) and the inline images of
  \* processBatch (lines 185-207) for one task
  comppc,        \* position: "idle" | "compose" | "images" | "done"
  compOutline,   \* the outline of the task
  compDoImages,  \* doImages
  mdxBody,       \* the composed body: its headings, image references and parts
  imagePrompts,  \* the prompts composeMdxBody returned
  imgLoopIdx,    \* idx of the loop of line 199
  imageCalls,    \* history: the arguments of the calls of generateAndSaveWebp
  imageFiles     \* the inline image files of the task: number -> kind

compVars == <<comppc, compOutline, compDoImages, mdxBody, imagePrompts,
              imgLoopIdx, imageCalls, imageFiles>>

vars == <<semVars, mainVars, ctxVars, linkVars, simVars, rankVars, compVars>>

\* the parts of the program a specification does not drive
CtxIdle ==
  /\ ctxpc = "idle" /\ part1 = <<>> /\ part2 = <<>> /\ prev = <<>>
  /\ previousContent = <<>> /\ promptContext = <<>>

\* no readFile, matter or writeFile of the linker has thrown
NoFault == [kind |-> "none", path |-> ""]

LinkIdle ==
  /\ contentDir = <<>> /\ passes = 0 /\ afterFirst = <<>> /\ originalDir = <<>>
  /\ linkFault = NoFault

SimIdle == simPosts = <<>> /\ simScores = <<>>

RankIdle == rankPost = <<>> /\ rankPeers = <<>> /\ rankOut = <<>>

CompIdle ==
  /\ comppc = "idle" /\ compOutline = <<>> /\ compDoImages = FALSE
  /\ mdxBody = <<>> /\ imagePrompts = <<>> /\ imgLoopIdx = 0
  /\ imageCalls = <<>> /\ imageFiles = <<>>

(* ----------------------------------------------------------------------- *)
(* Semaphore                                                               *)
(* ----------------------------------------------------------------------- *)

Callers == 1..NumCallers

\* constructor: this.max = Math.max(1, max || 1)
SemaphoreMax(m) == IF m = 0 THEN 1 ELSE IF m > 1 THEN m ELSE 1

\* constructor: count = 0, queue = []
SemaphoreNew(m, callers) ==
  /\ max = SemaphoreMax(m)
  /\ count = 0
  /\ queue = <<>>
  /\ cstate = [c \in callers |-> "idle"]
  /\ outcome = [c \in callers |-> "none"]
  /\ result = [c \in callers |-> "none"]
  /\ arrivals = <<>>
  /\ starts = <<>>
  /\ wokenBy = [c \in callers |-> 0]
  /\ jobs = <<>>

\* run, up to its first suspension: a caller that finds the semaphore full
\* pushes its resolver and waits; otherwise count++ and fn() is invoked at once
RunEnter(c) ==
  /\ jobs' = jobs
  /\ IF count >= max
     THEN /\ queue' = Append(queue, c)
          /\ cstate' = [cstate EXCEPT ![c] = "waiting"]
          /\ count' = count
     ELSE /\ count' = count + 1
          /\ cstate' = [cstate EXCEPT ![c] = "running"]
          /\ queue' = queue

\* the continuation of a waiter whose resolver was called: it does not test
\* count again; count++ and fn() is invoked
RunResume(c) ==
  /\ jobs # <<>> /\ Head(jobs) = c
  /\ jobs' = Tail(jobs)
  /\ count' = count + 1
  /\ cstate' = [cstate EXCEPT ![c] = "running"]
  /\ queue' = queue

\* a release that is skipped when fn() threw (no finally)
RunFinallyOnlyOnReturn(c, o) ==
  IF o = "err"
  THEN /\ count' = count
       /\ queue' = queue
       /\ cstate' = [cstate EXCEPT ![c] = "done"]
       /\ wokenBy' = wokenBy
       /\ jobs' = jobs
  ELSE /\ count' = count - 1
       /\ IF queue = <<>>
          THEN /\ queue' = queue
               /\ cstate' = [cstate EXCEPT ![c] = "done"]
               /\ wokenBy' = wokenBy
               /\ jobs' = jobs
          ELSE /\ queue' = Tail(queue)
               /\ cstate' = [cstate EXCEPT ![c] = "done", ![Head(queue)] = "woken"]
               /\ wokenBy' = [wokenBy EXCEPT ![Head(queue)] = c]
               /\ jobs' = Append(jobs, Head(queue))

\* a release that shifts the first resolver out of the queue and does not
\* call it
RunFinallyNoWake(c, o) ==
  /\ count' = count - 1
  /\ queue' = IF queue = <<>> THEN queue ELSE Tail(queue)
  /\ cstate' = [cstate EXCEPT ![c] = "done"]
  /\ wokenBy' = wokenBy
  /\ jobs' = jobs

\* the finally block, run whether fn() returned or threw (o): count--, then
\* the first resolver of the queue, if any, is shifted out and called
RunFinally(c, o) ==
  /\ count' = count - 1
  /\ IF queue = <<>>
     THEN /\ queue' = queue
          /\ cstate' = [cstate EXCEPT ![c] = "done"]
          /\ wokenBy' = wokenBy
          /\ jobs' = jobs
     ELSE /\ queue' = Tail(queue)
          /\ cstate' = [cstate EXCEPT ![c] = "done", ![Head(queue)] = "woken"]
          /\ wokenBy' = [wokenBy EXCEPT ![Head(queue)] = c]
          /\ jobs' = Append(jobs, Head(queue))

\* what run() hands to its caller: `return await fn()` inside try/finally
\* without a catch: the value on return, the error on throw
RunDelivers(o) == o

\* the semaphore of a part of the program that makes no backend call
SemaphoreUnused ==
  /\ max = 1 /\ count = 0 /\ queue = <<>> /\ jobs = <<>>
  /\ cstate = <<>> /\ outcome = <<>> /\ result = <<>>
  /\ arrivals = <<>> /\ starts = <<>> /\ wokenBy = <<>>

(* ----------------------------------------------------------------------- *)
(* main: the task planner                                                  *)
(* ----------------------------------------------------------------------- *)

\* Array.prototype.slice(start, end): negative indices count from the end,
\* both are clamped to the length
JsSliceIndex(len, k) ==
  IF k < 0 THEN (IF len + k > 0 THEN len + k ELSE 0)
           ELSE (IF k < len THEN k ELSE len)

JsSlice(seq, start, end) ==
  SubSeq(seq, JsSliceIndex(Len(seq), start) + 1, JsSliceIndex(Len(seq), end))

\* cluster.keywords || []
KeywordsOf(cluster) == IF cluster.hasKeywords THEN cluster.keywords ELSE <<>>

\* the inner loop of the flattening: one task per keyword of the cluster
ClusterTasks(cluster) ==
  [k \in 1..Len(KeywordsOf(cluster)) |->
     [cluster |-> cluster.cluster, keyword |-> KeywordsOf(cluster)[k]]]

\* a flattening that walks the clusters from the last to the first
RECURSIVE AllTasksReversed(_)
AllTasksReversed(p) ==
  IF p = <<>> THEN <<>>
  ELSE AllTasksReversed(Tail(p)) \o ClusterTasks(Head(p))

\* the outer loop: allTasks, cluster by cluster in plan order
RECURSIVE AllTasks(_)
AllTasks(p) ==
  IF p = <<>> THEN <<>>
  ELSE ClusterTasks(Head(p)) \o AllTasks(Tail(p))

\* a truncation that keeps one task too many
TargetTasksOffByOne(p, maxPosts) == JsSlice(AllTasks(p), 0, maxPosts + 1)

\* const targetTasks = allTasks.slice(0, maxPosts)
TargetTasks(p, maxPosts) == JsSlice(AllTasks(p), 0, maxPosts)

\* main, lines 110-117
MainPlanTasks ==
  /\ mpc = "tasks"
  /\ targetTasks' = TargetTasks(plan, cfg.maxPosts)
  /\ mpc' = "loop"
  /\ i' = 0
  /\ UNCHANGED <<cfg, collabLog, plan, staticLeft, invs, files>>

\* main when it is not running
MainIdle ==
  /\ cfg = [maxPosts |-> 0] /\ mpc = "idle" /\ plan = <<>> /\ targetTasks = <<>>
  /\ staticLeft = 0 /\ i = 0 /\ invs = <<>> /\ files = <<>>
  /\ collabLog = <<>>

(* ----------------------------------------------------------------------- *)
(* PlanSpec: the task planner over arbitrary plans and --max-posts values  *)
(* ----------------------------------------------------------------------- *)

ClusterNames == {"x", "y"}
Keywords == {"a", "b"}

SeqsUpTo(S, n) == UNION {[1..k -> S] : k \in 0..n}

\* a cluster as the plan generator may return it: with a keyword list, or
\* without one
ClusterValues ==
  {[cluster |-> c, hasKeywords |-> TRUE, keywords |-> ks] :
     c \in ClusterNames, ks \in SeqsUpTo(Keywords, MaxKeywords)}
  \cup {[cluster |-> c, hasKeywords |-> FALSE, keywords |-> <<>>] : c \in ClusterNames}

PlanValues == SeqsUpTo(ClusterValues, MaxClusters)

PlanInit ==
  /\ SemaphoreUnused /\ CtxIdle /\ LinkIdle /\ SimIdle /\ RankIdle /\ CompIdle
  /\ plan \in PlanValues
  /\ \E m \in -1..MaxPostsPlanned : cfg = [maxPosts |-> m]
  /\ mpc = "tasks"
  /\ targetTasks = <<>>
  /\ staticLeft = 0 /\ i = 0 /\ invs = <<>> /\ files = <<>>
  /\ collabLog = <<>>

PlanNext == MainPlanTasks /\ UNCHANGED <<semVars, ctxVars, linkVars, simVars, rankVars, compVars>>

PlanSpec == PlanInit /\ [][PlanNext]_vars

\* number of tasks the clusters before cluster c of plan p contribute
RECURSIVE TasksBefore(_, _)
TasksBefore(p, c) ==
  IF c <= 1 THEN 0 ELSE TasksBefore(p, c - 1) + Len(KeywordsOf(p[c - 1]))

TotalTasks(p) == TasksBefore(p, Len(p) + 1)

(* C3: for any plan and any maximum post count M >= 0 the task list handed *)
(* to the batch loop is exactly the first min(M, total) elements of the    *)
(* cluster-major, keyword-minor flattening: keyword k of cluster c sits at *)
(* position (tasks of the clusters before c) + k when that is within the   *)
(* list, and the list never holds more than M tasks.                       *)
C3_PlannerPrefix ==
  (mpc = "loop" /\ cfg.maxPosts >= 0) =>
    /\ Len(targetTasks) <= cfg.maxPosts
    /\ Len(targetTasks) =
         (IF cfg.maxPosts < TotalTasks(plan) THEN cfg.maxPosts ELSE TotalTasks(plan))
    /\ \A c \in 1..Len(plan) : \A k \in 1..Len(KeywordsOf(plan[c])) :
         TasksBefore(plan, c) + k <= Len(targetTasks) =>
           targetTasks[TasksBefore(plan, c) + k] =
             [cluster |-> plan[c].cluster, keyword |-> plan[c].keywords[k]]

\* a plan of two clusters with two keywords each was truncated inside its
\* second cluster
C3_Witness ==
  /\ mpc = "loop"
  /\ Len(plan) = 2 /\ Len(KeywordsOf(plan[1])) = 2 /\ Len(KeywordsOf(plan[2])) = 2
  /\ plan[1].cluster # plan[2].cluster
  /\ cfg.maxPosts = 3
  /\ Len(targetTasks) = 3
  /\ targetTasks[3].cluster = plan[2].cluster

(* ----------------------------------------------------------------------- *)
(* SemSpec: Semaphore.run under arbitrary concurrent callers               *)
(* ----------------------------------------------------------------------- *)

ConcurrencyInputs == 0..MaxConcurrency

SemInit == MainIdle /\ CtxIdle /\ LinkIdle /\ SimIdle /\ RankIdle /\ CompIdle /\ \E m \in ConcurrencyInputs : SemaphoreNew(m, Callers)

\* caller c calls run(fn)
Call(c) ==
  /\ cstate[c] = "idle"
  /\ RunEnter(c)
  /\ arrivals' = Append(arrivals, c)
  /\ starts' = IF cstate'[c] = "running" THEN Append(starts, c) ELSE starts
  /\ UNCHANGED <<max, outcome, result, wokenBy>>

\* the woken waiter c resumes (a later microtask than the one that woke it)
Resume(c) ==
  /\ cstate[c] = "woken"
  /\ RunResume(c)
  /\ starts' = Append(starts, c)
  /\ UNCHANGED <<max, outcome, result, arrivals, wokenBy>>

\* the operation of c ends, returning (o = "ok") or throwing (o = "err")
Settle(c, o) ==
  /\ cstate[c] = "running"
  /\ outcome' = [outcome EXCEPT ![c] = o]
  /\ RunFinally(c, o)
  /\ result' = [result EXCEPT ![c] = RunDelivers(o)]
  /\ UNCHANGED <<max, arrivals, starts>>

SemNext ==
  \/ \E c \in Callers : Call(c) /\ UNCHANGED <<mainVars, ctxVars, linkVars, simVars, rankVars, compVars>>
  \/ \E c \in Callers : Resume(c) /\ UNCHANGED <<mainVars, ctxVars, linkVars, simVars, rankVars, compVars>>
  \/ \E c \in Callers, o \in {"ok", "err"} : Settle(c, o) /\ UNCHANGED <<mainVars, ctxVars, linkVars, simVars, rankVars, compVars>>

SemSpec == SemInit /\ [][SemNext]_vars

\* the runtime runs every promise job (the continuation of a woken waiter),
\* and every operation that has begun ends, by returning or by throwing
SemFairness ==
  \A c \in Callers :
    /\ WF_vars(Resume(c) /\ UNCHANGED <<mainVars, ctxVars, linkVars, simVars, rankVars, compVars>>)
    /\ WF_vars(\E o \in {"ok", "err"} :
                 Settle(c, o) /\ UNCHANGED <<mainVars, ctxVars, linkVars, simVars, rankVars, compVars>>)

SemLiveSpec == SemSpec /\ SemFairness

\* the operations inside their execution body
Running == {c \in DOMAIN cstate : cstate[c] = "running"}

\* position of caller c in a history sequence (0: absent)
PosIn(seq, c) ==
  IF \E j \in 1..Len(seq) : seq[j] = c
  THEN CHOOSE j \in 1..Len(seq) : seq[j] = c
  ELSE 0

(* C1: the number of operations inside their execution body at the same   *)
(* time never exceeds the configured max.                                  *)
C1_AtMostMaxRunning == Cardinality(Running) <= max

(* C6: callers are admitted strictly in arrival order: a caller whose      *)
(* operation has begun arrived before every caller that is still waiting   *)
(* in the queue or woken but not yet resumed.                              *)
C6_FifoAdmission ==
  \A c \in DOMAIN cstate : \A d \in DOMAIN cstate :
    (PosIn(starts, d) > 0 /\ cstate[c] \in {"waiting", "woken"})
      => PosIn(arrivals, d) < PosIn(arrivals, c)

\* the step in which the operation of caller c raises
Raises(c) == cstate[c] = "running" /\ cstate'[c] = "done" /\ outcome'[c] = "err"

(* C7: when an operation raises, the error is delivered to its own caller  *)
(* and to no one else, its slot is released exactly once (count drops by   *)
(* one and the caller is done), the next waiting caller, if any, is woken, *)
(* and no other caller's state changes; every finished caller holds the    *)
(* result of its own operation.                                            *)
C7_ErrorIsolated ==
  /\ [](\A c \in DOMAIN cstate : cstate[c] = "done" => result[c] = outcome[c])
  /\ [][\A c \in DOMAIN cstate : Raises(c) =>
          /\ result'[c] = "err"
          /\ \A d \in DOMAIN cstate \ {c} : result'[d] = result[d]
          /\ count' = count - 1
          /\ IF queue = <<>>
             THEN /\ queue' = <<>>
                  /\ \A d \in DOMAIN cstate \ {c} : cstate'[d] = cstate[d]
             ELSE /\ queue' = Tail(queue)
                  /\ cstate'[Head(queue)] = "woken"
                  /\ \A d \in DOMAIN cstate \ {c, Head(queue)} :
                        cstate'[d] = cstate[d]]_vars

\* an operation raised, its release woke a waiter, and that waiter then ran
\* and returned its own result, while a third operation was still running
C7_Witness ==
  \E c \in DOMAIN cstate : \E d \in DOMAIN cstate : \E e \in DOMAIN cstate :
    /\ result[c] = "err"
    /\ wokenBy[d] = c
    /\ result[d] = "ok"
    /\ e \notin {c, d} /\ cstate[e] = "running"


(* ----------------------------------------------------------------------- *)
(* main and processBatch: a whole run                                      *)
(* ----------------------------------------------------------------------- *)

\* generateContentPart is called with totalParts: 3
TotalParts == 3
\* generateStaticPages makes five completions (hero, about, contact, privacy,
\* terms)
StaticPageCalls == 5
\* the fallback plan asks the mock client for 10 clusters, which gives each
\* cluster 5 keywords
FallbackClusters == 10
MockKeywordsPerCluster == 5

\* slugifyString, on the strings of the model: lower-casing maps the keyword
\* "A" onto the slug of "a"; the other strings are their own slug
slugifyString(str) == IF str = "A" THEN "a" ELSE str

\* MockOpenAIClient.generateSitePlan
MockSitePlan(clustersTarget) ==
  [c \in 1..clustersTarget |->
     [cluster |-> "Cluster " \o ToString(c),
      hasKeywords |-> TRUE,
      keywords |-> [k \in 1..MockKeywordsPerCluster |->
                      "topic " \o ToString(c) \o "." \o ToString(k)]]]

\* the steps of one iteration of processBatch that call the generation
\* backend, each through OpenAIClient._completeText and so Semaphore.run
TextSteps == {"seo", "outline", "part1", "part2", "part3", "meta"}
\* the steps that call the image backend
ImageSteps == {"cover", "img"}

\* the arguments that identify a backend call
CallOf(step) ==
  [op |-> IF step \in {"part1", "part2", "part3"} THEN "contentPart" ELSE step,
   partIndex |-> CASE step = "part1" -> 1 [] step = "part2" -> 2
                   [] step = "part3" -> 3 [] OTHER -> 0,
   totalParts |-> IF step \in {"part1", "part2", "part3"} THEN TotalParts ELSE 0]

CallEvent(step) == [ev |-> "call", ok |-> TRUE, call |-> CallOf(step)]
ReturnEvent(step, o) == [ev |-> "return", ok |-> (o = "ok"), call |-> CallOf(step)]
WriteEvent == [ev |-> "write", ok |-> TRUE, call |-> CallOf("write")]

\* an order of the statements in which the document is written before the
\* third content part is asked for
NextStepWriteEarly(step, descEmpty) ==
  CASE step = "seo" -> "outline"
    [] step = "outline" -> "part1"
    [] step = "part1" -> "part2"
    [] step = "part2" -> "write"
    [] step = "part3" -> IF descEmpty THEN "meta" ELSE "write"
    [] OTHER -> "write"

\* the order of the statements of one iteration, lines 152-181: the meta
\* description is asked for only when seo.description is empty
NextStep(step, descEmpty) ==
  CASE step = "seo" -> "outline"
    [] step = "outline" -> "part1"
    [] step = "part1" -> "part2"
    [] step = "part2" -> "part3"
    [] step = "part3" -> IF descEmpty THEN "meta" ELSE "write"
    [] OTHER -> "write"

\* composeMdxBody: one image prompt per flagged outline section, and one
\* between each adjacent pair of the three parts
ImagePromptCount(flagged) == flagged + (TotalParts - 1)

\* the position after the current statement of the iteration has completed
AfterStep(v) ==
  LET nxt == IF v.step \in TextSteps THEN NextStep(v.step, v.descEmpty)
             ELSE IF v.step = "write"
                  THEN (IF cfg.doImages THEN "cover" ELSE "end")
             ELSE IF v.img < ImagePromptCount(v.flagged) THEN "img" ELSE "end"
  IN [v EXCEPT !.step = nxt,
               !.inflight = FALSE,
               !.img = IF nxt = "img" THEN v.img + 1 ELSE v.img]

\* for (const task of batch): the next task of the batch, or the statement
\* after the loop; the locals of the iteration are gone
EndIteration(v) ==
  IF v.lo + v.k - 1 < v.hi
  THEN [v EXCEPT !.k = v.k + 1, !.step = "seo", !.inflight = FALSE,
                 !.log = <<>>, !.descEmpty = FALSE, !.flagged = 0,
                 !.img = 0, !.placeholders = {}, !.failed = {}]
  ELSE [v EXCEPT !.pc = "related", !.step = "none", !.inflight = FALSE,
                 !.log = <<>>, !.descEmpty = FALSE, !.flagged = 0,
                 !.img = 0, !.placeholders = {}, !.failed = {}]

\* processBatch is called with batch = targetTasks.slice(i, i + batchSize)
NewInvocation(lo, hi) ==
  [lo |-> lo, hi |-> hi, k |-> 1,
   pc |-> IF lo > hi THEN "related" ELSE "task",
   step |-> IF lo > hi THEN "none" ELSE "seo",
   inflight |-> FALSE, log |-> <<>>, descEmpty |-> FALSE, flagged |-> 0,
   img |-> 0, placeholders |-> {}, failed |-> {}, metas |-> <<>>]

\* the task of the current iteration
TaskOf(v) == targetTasks[v.lo + v.k - 1]

\* path.join(postDir, `${slug}.mdx`), postDir = contentDir/clusterSlug
MdxFilePath(task) == <<slugifyString(task.cluster), slugifyString(task.keyword)>>

\* writing a file creates it or replaces its content
WriteFile(fs, path, doc) ==
  [q \in DOMAIN fs \cup {path} |-> IF q = path THEN doc ELSE fs[q]]

\* addRelatedLinks: every post of the batch that has a post of the same
\* cluster with another slug in the batch gets a block appended to its file
RECURSIVE AddRelatedLinks(_, _, _)
AddRelatedLinks(fs, rest, metas) ==
  IF rest = <<>> THEN fs
  ELSE LET meta == Head(rest)
           others == {j \in 1..Len(metas) :
                        metas[j].cluster = meta.cluster /\ metas[j].slug # meta.slug}
           fs1 == IF others = {} \/ meta.path \notin DOMAIN fs THEN fs
                  ELSE [fs EXCEPT ![meta.path].body = Append(@, "related")]
       IN AddRelatedLinks(fs1, Tail(rest), metas)

\* applyInternalLinks, as main sees it: every document that has a document
\* of the same cluster with another slug is rewritten with its link blocks
ApplyInternalLinksRun(fs) ==
  [q \in DOMAIN fs |->
     IF \E r \in DOMAIN fs : fs[r].cluster = fs[q].cluster /\ fs[r].slug # fs[q].slug
     THEN [fs[q] EXCEPT !.body = Append(@, "links")]
     ELSE fs[q]]

pipeSemFrame == <<max, outcome, result, arrivals, starts>>

\* main, lines 76-88: the clients are constructed; ReplicateClient's
\* constructor throws without a token
MainStart ==
  /\ mpc = "start"
  /\ mpc' = IF ~cfg.mock /\ ~cfg.replicateToken THEN "exit1" ELSE "brand"
  /\ UNCHANGED <<cfg, collabLog, plan, targetTasks, staticLeft, i, invs, files, semVars>>

\* main, line 92, with the mock client, which has no generateBrand: the call
\* throws a TypeError
MainBrandMock ==
  /\ mpc = "brand" /\ cfg.mock
  /\ mpc' = "exit1"
  /\ UNCHANGED <<cfg, collabLog, plan, targetTasks, staticLeft, i, invs, files, semVars>>

\* a completion helper that takes a slot and, inside it, asks for a slot
\* again: the inner run waits when the outer one took the last slot
completeTextNested(c) ==
  /\ jobs' = jobs
  /\ IF count + 1 >= max
     THEN /\ count' = IF count >= max THEN count ELSE count + 1
          /\ queue' = Append(queue, c)
          /\ cstate' = [cstate EXCEPT ![c] = "waiting"]
     ELSE /\ count' = count + 2
          /\ cstate' = [cstate EXCEPT ![c] = "running"]
          /\ queue' = queue

\* OpenAIClient._completeText, internalLinker.js 252-262: the request is
\* made inside one Semaphore.run; _completeJson (264-277) awaits
\* _completeText and parses its text outside of run, and the generate*
\* methods call one of the two
completeText(c) == RunEnter(c)

\* main, lines 92-99: a completion of generateBrand, generateStaticPages or
\* generateSitePlan is asked for
MainCall ==
  /\ mpc \in {"brand", "static", "sitePlan"} /\ ~cfg.mock
  /\ cstate[0] \in {"idle", "done"}
  /\ completeText(0)
  /\ UNCHANGED <<pipeSemFrame, wokenBy, mainVars>>

\* a completion of generateBrand or generateStaticPages returns or throws
MainReturn(o) ==
  /\ mpc \in {"brand", "static"} /\ cstate[0] = "running"
  /\ RunFinally(0, o)
  /\ IF o = "err"
     THEN mpc' = "exit1" /\ staticLeft' = staticLeft
     ELSE IF mpc = "brand"
          THEN mpc' = "static" /\ staticLeft' = StaticPageCalls
          ELSE /\ staticLeft' = staticLeft - 1
               /\ mpc' = IF staticLeft > 1 THEN "static" ELSE "sitePlan"
  /\ UNCHANGED <<pipeSemFrame, cfg, collabLog, plan, targetTasks, i, invs, files>>

\* what the completion of generateSitePlan can parse to: a list of clusters,
\* an empty list (also what _completeJson returns for unparsable text), a
\* list with a cluster that has no keyword list, a list in which no cluster
\* has one, or something that is no list
PlanResponses ==
  { [isArray |-> TRUE, clusters |->
      << [cluster |-> "x", hasKeywords |-> TRUE, keywords |-> <<"a", "b">>],
         [cluster |-> "y", hasKeywords |-> TRUE, keywords |-> <<"c", "A">>] >>],
    [isArray |-> TRUE, clusters |->
      << [cluster |-> "x", hasKeywords |-> FALSE, keywords |-> <<>>],
         [cluster |-> "y", hasKeywords |-> TRUE, keywords |-> <<"a", "A", "b">>] >>],
    [isArray |-> TRUE, clusters |->
      << [cluster |-> "x", hasKeywords |-> FALSE, keywords |-> <<>>] >>],
    [isArray |-> TRUE, clusters |-> <<>>],
    [isArray |-> FALSE, clusters |-> <<>>] }

\* main, lines 99-104, and generateSitePlan: the plan's completion returns
\* or throws; a response that is no list throws 'Invalid plan JSON'; an empty
\* list is replaced by the mock client's plan
MainPlanReturn(o, resp) ==
  /\ mpc = "sitePlan" /\ cstate[0] = "running"
  /\ RunFinally(0, o)
  /\ IF o = "err" \/ ~resp.isArray
     THEN mpc' = "exit1" /\ plan' = plan
     ELSE /\ mpc' = "tasks"
          /\ plan' = IF Len(resp.clusters) = 0
                     THEN MockSitePlan(FallbackClusters)
                     ELSE resp.clusters
  /\ UNCHANGED <<pipeSemFrame, cfg, collabLog, targetTasks, staticLeft, i, invs, files>>

\* the invocations of processBatch the model follows: one more than a run
\* with a batch size of 1 makes
MaxBatches == MaxPostsRun + 1

\* main, lines 120-123: the loop test, and the call of processBatch, which
\* runs up to its first await
MainLoop ==
  /\ mpc = "loop"
  /\ IF i < Len(targetTasks)
     THEN /\ Len(invs) < MaxBatches
          /\ invs' = Append(invs,
                       NewInvocation(JsSliceIndex(Len(targetTasks), i) + 1,
                                     JsSliceIndex(Len(targetTasks), i + cfg.batchSize)))
          /\ mpc' = "await"
     ELSE /\ invs' = invs
          /\ mpc' = "link"
  /\ UNCHANGED <<cfg, collabLog, plan, targetTasks, staticLeft, i, files, semVars>>

\* a loop that goes on without awaiting processBatch
BatchSettledNoAwait(n) == TRUE

\* await processBatch(...): main goes on when the invocation has settled
BatchSettled(n) == invs[n].pc \in {"done", "thrown"}

\* main, lines 123-124: processBatch has returned (i += batchSize) or thrown
\* (main rejects, and main().catch exits with code 1)
MainAwait ==
  /\ mpc = "await"
  /\ BatchSettled(Len(invs))
  /\ IF invs[Len(invs)].pc = "thrown"
     THEN mpc' = "exit1" /\ i' = i
     ELSE mpc' = "loop" /\ i' = i + cfg.batchSize
  /\ UNCHANGED <<cfg, collabLog, plan, targetTasks, staticLeft, invs, files, semVars>>

\* processBatch: the current statement of invocation n calls a backend
TaskCall(n) ==
  LET v == invs[n] IN
  /\ v.pc = "task" /\ ~v.inflight
  /\ v.step \in TextSteps \cup ImageSteps
  /\ IF v.step \in TextSteps
     THEN cstate[n] \in {"idle", "done"} /\ completeText(n)
     ELSE UNCHANGED <<count, queue, cstate, jobs>>
  /\ invs' = [invs EXCEPT ![n] =
                [v EXCEPT !.inflight = TRUE,
                          !.log = IF v.step \in TextSteps
                                  THEN Append(v.log, CallEvent(v.step))
                                  ELSE v.log]]
  /\ UNCHANGED <<pipeSemFrame, wokenBy, cfg, collabLog, mpc, plan, targetTasks, staticLeft, i, files>>

\* an iteration that logs a failed generation call and goes on
OnTextErrorContinue(v) == AfterStep(v)

\* a generation call threw: nothing in processBatch catches it, so the
\* invocation ends by throwing
OnTextError(v) == [v EXCEPT !.pc = "thrown", !.inflight = FALSE]

\* a generation call of invocation n returns (with an empty description or
\* not, for seo; with f flagged sections, for the outline) or throws
TextReturn(n, o, d, f) ==
  LET v == invs[n]
      v1 == [v EXCEPT !.log = Append(v.log, ReturnEvent(v.step, o)),
                      !.descEmpty = IF v.step = "seo" THEN d ELSE v.descEmpty,
                      !.flagged = IF v.step = "outline" THEN f ELSE v.flagged]
  IN
  /\ v.pc = "task" /\ v.inflight /\ v.step \in TextSteps
  /\ cstate[n] = "running"
  /\ RunFinally(n, o)
  /\ invs' = [invs EXCEPT ![n] = IF o = "ok" THEN AfterStep(v1) ELSE OnTextError(v1)]
  /\ UNCHANGED <<pipeSemFrame, cfg, collabLog, mpc, plan, targetTasks, staticLeft, i, files>>

\* an iteration in which a failed image call is not caught
OnImageErrorThrow(v) == [v EXCEPT !.pc = "thrown", !.inflight = FALSE]

\* lines 194-197 and 203-206: the catch block of an image call calls
\* createPlaceholder with the outputPath of the call (image v.img of the
\* task: 0 is cover.webp, k is img<k>.webp) and the iteration goes on
OnImageError(v) == AfterStep([v EXCEPT !.placeholders = v.placeholders \cup {v.img}])

\* an image call of invocation n returns or throws; failed is the history
\* of the image calls of the iteration that threw
ImageReturn(n, o) ==
  LET v == invs[n]
      v1 == [v EXCEPT !.failed = v.failed \cup {v.img}]
  IN
  /\ v.pc = "task" /\ v.inflight /\ v.step \in ImageSteps
  /\ invs' = [invs EXCEPT ![n] = IF o = "ok" THEN AfterStep(v) ELSE OnImageError(v1)]
  /\ UNCHANGED <<cfg, collabLog, mpc, plan, targetTasks, staticLeft, i, files, semVars>>

\* lines 179-183: the document is written and its meta pushed
TaskWrite(n) ==
  LET v == invs[n]
      task == TaskOf(v)
      path == MdxFilePath(task)
      doc == [slug |-> slugifyString(task.keyword), cluster |-> task.cluster,
              body |-> <<"document">>]
      meta == [slug |-> slugifyString(task.keyword), cluster |-> task.cluster,
               path |-> path]
  IN
  /\ v.pc = "task" /\ v.step = "write"
  /\ files' = WriteFile(files, path, doc)
  /\ invs' = [invs EXCEPT ![n] =
                AfterStep([v EXCEPT !.log = Append(v.log, WriteEvent),
                                    !.metas = Append(v.metas, meta)])]
  /\ UNCHANGED <<cfg, collabLog, mpc, plan, targetTasks, staticLeft, i, semVars>>

\* the end of an iteration of the loop over the batch
TaskEnd(n) ==
  /\ invs[n].pc = "task" /\ invs[n].step = "end"
  /\ invs' = [invs EXCEPT ![n] = EndIteration(invs[n])]
  /\ UNCHANGED <<cfg, collabLog, mpc, plan, targetTasks, staticLeft, i, files, semVars>>

\* line 212: await addRelatedLinks(postMetas), then processBatch returns
BatchRelated(n) ==
  /\ invs[n].pc = "related"
  /\ files' = AddRelatedLinks(files, invs[n].metas, invs[n].metas)
  /\ invs' = [invs EXCEPT ![n].pc = "done", ![n].metas = <<>>]
  /\ UNCHANGED <<cfg, collabLog, mpc, plan, targetTasks, staticLeft, i, semVars>>

\* a main that deploys whatever the option says
AfterLinkAlwaysDeploy(doDeploy) == "repo"

\* line 129: if (doDeploy)
AfterLink(doDeploy) == IF doDeploy THEN "repo" ELSE "done"

\* main, lines 126-129: applyInternalLinks, then the test of doDeploy
MainLink ==
  /\ mpc = "link"
  /\ files' = ApplyInternalLinksRun(files)
  /\ collabLog' = Append(collabLog, "link")
  /\ mpc' = AfterLink(cfg.doDeploy)
  /\ UNCHANGED <<cfg, plan, targetTasks, staticLeft, i, invs, semVars>>

\* main, lines 130-136: ensureGitHubRepo, initAndPushGit, ensureVercelProject;
\* each returns or throws; ensureGitHubRepo throws when GITHUB_TOKEN or
\* GITHUB_OWNER is missing (githubClient.js 9-11)
MainDeploy(o) ==
  /\ mpc \in {"repo", "push", "vercel"}
  /\ mpc' = IF o = "err" \/ (mpc = "repo" /\ ~cfg.githubCreds) THEN "exit1"
            ELSE CASE mpc = "repo" -> "push" [] mpc = "push" -> "vercel"
                   [] OTHER -> "done"
  /\ collabLog' = Append(collabLog, mpc)
  /\ UNCHANGED <<cfg, plan, targetTasks, staticLeft, i, invs, files, semVars>>

\* the options of a run: parseArgs and the environment, lines 51-59
RunConfigs ==
  [maxPosts : 0..MaxPostsRun,
   batchSize : 0..MaxBatchSize,
   concurrency : {1, MaxConcurrency},
   doImages : BOOLEAN,
   doDeploy : BOOLEAN,
   mock : BOOLEAN,
   replicateToken : BOOLEAN,
   githubCreds : BOOLEAN]

\* the callers of Semaphore.run in a run: main (0) and the invocations of
\* processBatch
RunCallers == 0..MaxPostsRun

Init ==
  /\ CtxIdle /\ LinkIdle /\ SimIdle /\ RankIdle /\ CompIdle
  /\ cfg \in RunConfigs
  /\ mpc = "start"
  /\ plan = <<>> /\ targetTasks = <<>>
  /\ staticLeft = 0 /\ i = 0 /\ invs = <<>> /\ files = <<>>
  /\ collabLog = <<>>
  /\ SemaphoreNew(cfg.concurrency, RunCallers)

Outcomes == {"ok", "err"}

Next ==
  \/ MainStart /\ UNCHANGED <<ctxVars, linkVars, simVars, rankVars, compVars>>
  \/ MainBrandMock /\ UNCHANGED <<ctxVars, linkVars, simVars, rankVars, compVars>>
  \/ MainCall /\ UNCHANGED <<ctxVars, linkVars, simVars, rankVars, compVars>>
  \/ \E o \in Outcomes : MainReturn(o) /\ UNCHANGED <<ctxVars, linkVars, simVars, rankVars, compVars>>
  \/ \E o \in Outcomes, resp \in PlanResponses : MainPlanReturn(o, resp) /\ UNCHANGED <<ctxVars, linkVars, simVars, rankVars, compVars>>
  \/ MainPlanTasks /\ UNCHANGED <<semVars, ctxVars, linkVars, simVars, rankVars, compVars>>
  \/ MainLoop /\ UNCHANGED <<ctxVars, linkVars, simVars, rankVars, compVars>>
  \/ MainAwait /\ UNCHANGED <<ctxVars, linkVars, simVars, rankVars, compVars>>
  \/ \E n \in DOMAIN invs : TaskCall(n) /\ UNCHANGED <<ctxVars, linkVars, simVars, rankVars, compVars>>
  \/ \E n \in DOMAIN invs, o \in Outcomes, d \in BOOLEAN, f \in 0..MaxFlagged :
       TextReturn(n, o, d, f) /\ UNCHANGED <<ctxVars, linkVars, simVars, rankVars, compVars>>
  \/ \E n \in DOMAIN invs, o \in Outcomes : ImageReturn(n, o) /\ UNCHANGED <<ctxVars, linkVars, simVars, rankVars, compVars>>
  \/ \E n \in DOMAIN invs : TaskWrite(n) /\ UNCHANGED <<ctxVars, linkVars, simVars, rankVars, compVars>>
  \/ \E n \in DOMAIN invs : TaskEnd(n) /\ UNCHANGED <<ctxVars, linkVars, simVars, rankVars, compVars>>
  \/ \E n \in DOMAIN invs : BatchRelated(n) /\ UNCHANGED <<ctxVars, linkVars, simVars, rankVars, compVars>>
  \/ MainLink /\ UNCHANGED <<ctxVars, linkVars, simVars, rankVars, compVars>>
  \/ \E o \in Outcomes : MainDeploy(o) /\ UNCHANGED <<ctxVars, linkVars, simVars, rankVars, compVars>>

Spec == Init /\ [][Next]_vars

\* in a run the semaphore never has a caller waiting: every call of main and
\* of processBatch is awaited before the next is made
RunNeverQueues == queue = <<>> /\ jobs = <<>> /\ count <= 1


IsPrefix(a, b) == Len(a) <= Len(b) /\ \A j \in 1..Len(a) : a[j] = b[j]

\* the number of tasks of the batch of invocation v
BatchLen(v) == v.hi - v.lo + 1

(* C4: within one batch the tasks are dispatched through the executor so   *)
(* that up to max of them run in parallel: while a generation call of one  *)
(* task is in flight and a later task of the same batch has not been       *)
(* started, the executor is full (count has reached max).                  *)
C4_BatchRunsInParallel ==
  \A n \in DOMAIN invs :
    (invs[n].pc = "task" /\ invs[n].inflight /\ invs[n].step \in TextSteps
       /\ invs[n].k < BatchLen(invs[n]))
      => count >= max

(* C5: batches are processed strictly one after another: whenever an       *)
(* invocation of processBatch exists, every earlier invocation has         *)
(* returned, so all its tasks, their images and its related-links pass are *)
(* over before the next batch makes its first call or write.               *)
C5_BatchesSequential ==
  \A n \in DOMAIN invs : \A m \in DOMAIN invs :
    n < m => invs[n].pc = "done"

\* the second batch has a generation call in flight after a first batch of
\* two tasks, with images, has been processed
C5_Witness ==
  /\ Len(invs) >= 2
  /\ cfg.doImages
  /\ BatchLen(invs[1]) = 2
  /\ invs[2].pc = "task" /\ invs[2].inflight /\ invs[2].step = "seo"

\* the events of one task in the order the claim fixes, with or without the
\* call for a meta description
ExpectedLog(withMeta) ==
  << CallEvent("seo"), ReturnEvent("seo", "ok"),
     CallEvent("outline"), ReturnEvent("outline", "ok"),
     CallEvent("part1"), ReturnEvent("part1", "ok"),
     CallEvent("part2"), ReturnEvent("part2", "ok"),
     CallEvent("part3"), ReturnEvent("part3", "ok") >>
  \o (IF withMeta THEN << CallEvent("meta"), ReturnEvent("meta", "ok") >> ELSE <<>>)
  \o << WriteEvent >>

\* the log without a last event that is a failed return
SuccessfulPart(log) ==
  IF log # <<>> /\ ~log[Len(log)].ok THEN SubSeq(log, 1, Len(log) - 1) ELSE log

(* C9: for every task the backend calls happen in the order SEO metadata,  *)
(* outline, content part 1, 2, 3, each starting only after the previous    *)
(* one returned; the content-part calls are exactly those with partIndex   *)
(* 1, 2, 3 and totalParts 3; and the document is written only after all of *)
(* them have returned.                                                     *)
C9_CallOrder ==
  \A n \in DOMAIN invs :
    /\ \/ IsPrefix(SuccessfulPart(invs[n].log), ExpectedLog(FALSE))
       \/ IsPrefix(SuccessfulPart(invs[n].log), ExpectedLog(TRUE))
    /\ (invs[n].pc = "task" /\ invs[n].step \in ImageSteps \cup {"end"})
         => /\ invs[n].log # <<>>
            /\ invs[n].log[Len(invs[n].log)] = WriteEvent
            /\ Cardinality({j \in 1..Len(invs[n].log) :
                              /\ invs[n].log[j].ev = "call"
                              /\ invs[n].log[j].call.op = "contentPart"}) = TotalParts

\* the second task of a batch has written its document after its five calls
C9_Witness ==
  \E n \in DOMAIN invs :
    /\ invs[n].k = 2
    /\ invs[n].log = ExpectedLog(FALSE)

\* a generation call of invocation n has failed
CallFailed(n) ==
  \E j \in 1..Len(invs[n].log) : ~invs[n].log[j].ok

SomeCallFailed == \E n \in DOMAIN invs : CallFailed(n)

(* C10: if the SEO, outline or a content-part call of a task fails, no     *)
(* document is written for that task (its invocation has thrown and no     *)
(* write follows the failed call), no later task starts, neither the Link  *)
(* Graph Builder nor deployment is run, the documents written before are   *)
(* left as they were, and the run does not end with exit code 0: the only  *)
(* step main takes is the one to exit code 1.                              *)
C10_FailureAbortsRun ==
  /\ [](\A n \in DOMAIN invs : CallFailed(n) =>
          /\ invs[n].pc = "thrown"
          /\ ~invs[n].log[Len(invs[n].log)].ok
          /\ mpc \in {"await", "exit1"})
  /\ [][SomeCallFailed =>
          /\ files' = files
          /\ invs' = invs
          /\ count' = count
          /\ mpc' = "exit1"]_vars

\* the second task of a batch failed at its third content part after the
\* first task had written its document, and the run has ended with code 1
C10_Witness ==
  /\ mpc = "exit1"
  /\ \E n \in DOMAIN invs :
       /\ invs[n].k = 2
       /\ CallFailed(n)
       /\ invs[n].log[Len(invs[n].log)].call.partIndex = 3
  /\ DOMAIN files # {}

(* ----------------------------------------------------------------------- *)
(* CtxSpec: the continuity context of the content parts (processBatch,     *)
(* lines 155-159, and OpenAIClient.generateContentPart)                    *)
(* ----------------------------------------------------------------------- *)

\* `${part1}\n\n${part2}`.slice(0, 6000)
ContextWindow == 6000
\* previousContent.slice(0, 4000)
PromptWindow == 4000
\* the "\n\n" the template literal puts between the two parts
SeparatorLen == 2

\* A text is a rope: the sequence of its segments, each the characters
\* from .. to-1 (counted from 0, as a string's indices are) of the text
\* named src. No segment is empty, so two ropes are equal exactly when they
\* hold the same characters of the same texts.
Text(src, n) == IF n = 0 THEN <<>> ELSE <<[src |-> src, from |-> 0, to |-> n]>>

RECURSIVE StrLen(_)
StrLen(s) ==
  IF s = <<>> THEN 0 ELSE (Head(s).to - Head(s).from) + StrLen(Tail(s))

\* the characters lo .. hi-1 of s
RECURSIVE Substring(_, _, _)
Substring(s, lo, hi) ==
  IF s = <<>> THEN <<>>
  ELSE LET seg == Head(s)
           n == seg.to - seg.from
           a == IF lo > 0 THEN lo ELSE 0
           b == IF hi < n THEN hi ELSE n
           rest == Substring(Tail(s), lo - n, hi - n)
       IN IF a < b
          THEN <<[src |-> seg.src, from |-> seg.from + a, to |-> seg.from + b]>> \o rest
          ELSE rest

\* String.prototype.slice(start, end): the indices are clamped as those of
\* Array.prototype.slice are
StrSlice(s, start, end) ==
  Substring(s, JsSliceIndex(StrLen(s), start), JsSliceIndex(StrLen(s), end))

\* the template literal of line 158
Template(p1, p2) == p1 \o Text("\n\n", SeparatorLen) \o p2

\* line 158: const prev
ContinuityContext(p1, p2) == StrSlice(Template(p1, p2), 0, ContextWindow)

\* generateContentPart, line 231: what the prompt holds of previousContent
PromptContext(pc) == IF pc = <<>> THEN <<>> ELSE StrSlice(pc, 0, PromptWindow)

\* the lengths of the texts the generation backend returns
PartLengths ==
  {0, 1, ContextWindow \div 2 - 1, ContextWindow \div 2, PromptWindow,
   ContextWindow - SeparatorLen, ContextWindow, MaxPartLen}

\* line 155: part 1 is asked for, with no previousContent
CtxInit ==
  /\ SemaphoreUnused /\ MainIdle /\ LinkIdle /\ SimIdle /\ RankIdle /\ CompIdle
  /\ ctxpc = "part1"
  /\ part1 = <<>> /\ part2 = <<>> /\ prev = <<>>
  /\ previousContent = <<>> /\ promptContext = <<>>

\* lines 155-156: part 1 returns, part 2 is asked for with part1
CtxPart1Return(n) ==
  /\ ctxpc = "part1"
  /\ part1' = Text("part1", n)
  /\ previousContent' = part1'
  /\ promptContext' = PromptContext(part1')
  /\ ctxpc' = "part2"
  /\ UNCHANGED <<part2, prev>>

\* lines 156-158: part 2 returns, prev is cut, part 3 is asked for with prev
CtxPart2Return(n) ==
  /\ ctxpc = "part2"
  /\ part2' = Text("part2", n)
  /\ prev' = ContinuityContext(part1, part2')
  /\ previousContent' = prev'
  /\ promptContext' = PromptContext(prev')
  /\ ctxpc' = "part3"
  /\ UNCHANGED part1

\* line 158: part 3 returns
CtxPart3Return ==
  /\ ctxpc = "part3"
  /\ ctxpc' = "done"
  /\ UNCHANGED <<part1, part2, prev, previousContent, promptContext>>

CtxNext ==
  \/ \E n \in PartLengths : CtxPart1Return(n) /\ UNCHANGED <<semVars, mainVars, linkVars, simVars, rankVars, compVars>>
  \/ \E n \in PartLengths : CtxPart2Return(n) /\ UNCHANGED <<semVars, mainVars, linkVars, simVars, rankVars, compVars>>
  \/ CtxPart3Return /\ UNCHANGED <<semVars, mainVars, linkVars, simVars, rankVars, compVars>>

CtxSpec == CtxInit /\ [][CtxNext]_vars

(* C8: the continuity context passed to the generation of content part 3   *)
(* is the concatenation of part 1 and part 2 capped at 6000 characters     *)
(* counted from the end: the last 6000 characters of the concatenation     *)
(* (all of it when it is no longer than that).                             *)
C8_ContextKeepsTheEnd ==
  ctxpc = "part3" =>
    previousContent = StrSlice(Template(part1, part2), -ContextWindow,
                               StrLen(Template(part1, part2)))

(* ----------------------------------------------------------------------- *)
(* LinkSpec: the internal linker (scripts/lib/internalLinker.js 6-125)     *)
(* ----------------------------------------------------------------------- *)

\* The body of a document is the sequence of its characters. A literal the
\* linker writes as a whole (a marker comment up to its last character, a
\* block title, a link) is one element of the sequence.
NL == "\n"
EarlyStartMarker == <<"<!-- AUTOLINK-EARLY START --", ">">>
EarlyEndMarker == <<"<!-- AUTOLINK-EARLY END --", ">">>
NavStartMarker == <<"<!-- AUTOLINK-NAV START --", ">">>
NavEndMarker == <<"<!-- AUTOLINK-NAV END --", ">">>
\* the needle '\n## ' of insertBlocks
H2Needle == <<NL, "#", "#", " ">>

\* String.prototype.indexOf(needle, from), from >= 0
indexOf(hay, needle, from) ==
  LET hits == {k \in from..(Len(hay) - Len(needle)) :
                 \A j \in 1..Len(needle) : hay[k + j] = needle[j]}
  IN IF hits = {} THEN -1 ELSE CHOOSE k \in hits : \A m \in hits : k <= m

\* String.prototype.includes
includes(hay, needle) == indexOf(hay, needle, 0) # -1

\* nthIndexOf, lines 118-125: the loop, from the value idx has reached
RECURSIVE nthIndexOfFrom(_, _, _, _)
nthIndexOfFrom(hay, needle, n, idx) ==
  IF n <= 0 THEN idx
  ELSE LET found == indexOf(hay, needle, idx + 1)
       IN IF found = -1 THEN -1 ELSE nthIndexOfFrom(hay, needle, n - 1, found)

nthIndexOf(hay, needle, n) == nthIndexOfFrom(hay, needle, n, -1)

\* toLowerCase, on the words of the model
ToLowerCase(w) == IF w = "Cats" THEN "cats" ELSE w

\* normalizeToken, lines 70-75: the words of the model hold letters only
normalizeToken(w) == ToLowerCase(w)

\* tokenize, lines 77-81, of a title, which the model holds as its words
tokenize(words) == {normalizeToken(words[j]) : j \in 1..Len(words)}

\* a score over the size of the first token set alone
similarityOverFirst(a, b) ==
  LET A == {normalizeToken(a.keywords[j]) : j \in 1..Len(a.keywords)} \cup tokenize(a.title)
      B == {normalizeToken(b.keywords[j]) : j \in 1..Len(b.keywords)} \cup tokenize(b.title)
      inter == Cardinality(A \cap B)
  IN [num |-> inter, den |-> IF Cardinality(A) > 1 THEN Cardinality(A) ELSE 1]

\* similarity, lines 61-68: the fraction inter / denom
similarity(a, b) ==
  LET A == {normalizeToken(a.keywords[j]) : j \in 1..Len(a.keywords)} \cup tokenize(a.title)
      B == {normalizeToken(b.keywords[j]) : j \in 1..Len(b.keywords)} \cup tokenize(b.title)
      inter == Cardinality(A \cap B)
      sum == Cardinality(A) + Cardinality(B) - inter
  IN [num |-> inter, den |-> IF sum > 1 THEN sum ELSE 1]

\* the text of a title: its words joined by blanks
RECURSIVE TitleText(_)
TitleText(words) ==
  IF Len(words) = 0 THEN ""
  ELSE IF Len(words) = 1 THEN words[1]
  ELSE words[1] \o " " \o TitleText(Tail(words))

\* `- [${p.title}](/${p.slug}/)`, line 85
LinkText(post) == "- [" \o TitleText(post.title) \o "](/" \o post.slug \o "/)"

\* items.map(...).join('\n'), line 85
RECURSIVE LinkLines(_)
LinkLines(items) ==
  IF Len(items) = 0 THEN <<>>
  ELSE IF Len(items) = 1 THEN <<LinkText(Head(items))>>
  ELSE <<LinkText(Head(items)), NL>> \o LinkLines(Tail(items))

\* blockWithLinks, lines 83-87: the early and the end block carry the same
\* marker
blockWithLinks(title, items) ==
  IF Len(items) = 0 THEN <<>>
  ELSE <<NL, NL>> \o EarlyStartMarker \o <<NL, NL, "#", "#", "#", " ", title, NL, NL>>
       \o LinkLines(items) \o <<NL, NL>> \o EarlyEndMarker \o <<NL>>

\* lines 91 and 92: the link to the previous and to the next post (the
\* arrows are written <- and ->)
PrevText(post) == "[<- " \o TitleText(post.title) \o "](/" \o post.slug \o "/)"
NextText(post) == "[" \o TitleText(post.title) \o " ->](/" \o post.slug \o "/)"

\* prevNextBlock, lines 89-95: prev and next are null (<<>>) or a post
prevNextBlock(prevPost, nextPost) ==
  LET back == IF prevPost = <<>> THEN <<>> ELSE <<PrevText(prevPost[1])>>
      forth == IF nextPost = <<>> THEN <<>> ELSE <<NextText(nextPost[1])>>
      parts == back \o forth
      joined == IF Len(parts) = 2 THEN <<parts[1], " | ", parts[2]>> ELSE parts
  IN IF Len(parts) = 0 THEN <<>>
     ELSE <<NL, NL>> \o NavStartMarker \o <<NL, NL, "---", NL, NL>> \o joined
          \o <<NL, NL>> \o NavEndMarker \o <<NL>>

\* an insertBlocks that does not look for the markers
insertBlocksUngated(content, earlyBlock, endBlock, navBlock) ==
  LET idx == nthIndexOf(content, H2Needle, 2)
      out1 == IF earlyBlock # <<>> /\ idx # -1
              THEN LET insertAt == indexOf(content, <<NL>>, idx + 1)
                   IN JsSlice(content, 0, insertAt) \o earlyBlock
                      \o JsSlice(content, insertAt, Len(content))
              ELSE content
      out2 == IF endBlock # <<>> THEN out1 \o endBlock ELSE out1
  IN IF navBlock # <<>> THEN out2 \o navBlock ELSE out2

\* an insertBlocks whose end block does not look for the marker of the
\* early block
insertBlocksEndUngated(content, earlyBlock, endBlock, navBlock) ==
  LET idx == nthIndexOf(content, H2Needle, 2)
      out1 == IF earlyBlock # <<>> /\ idx # -1 /\ ~includes(content, EarlyStartMarker)
              THEN LET insertAt == indexOf(content, <<NL>>, idx + 1)
                   IN JsSlice(content, 0, insertAt) \o earlyBlock
                      \o JsSlice(content, insertAt, Len(content))
              ELSE content
      out2 == IF endBlock # <<>> THEN out1 \o endBlock ELSE out1
  IN IF navBlock # <<>> /\ ~includes(out2, NavStartMarker)
     THEN out2 \o navBlock ELSE out2

\* insertBlocks, lines 97-116
insertBlocks(content, earlyBlock, endBlock, navBlock) ==
  LET idx == nthIndexOf(content, H2Needle, 2)
      out1 == IF earlyBlock # <<>> /\ idx # -1 /\ ~includes(content, EarlyStartMarker)
              THEN LET insertAt == indexOf(content, <<NL>>, idx + 1)
                   IN JsSlice(content, 0, insertAt) \o earlyBlock
                      \o JsSlice(content, insertAt, Len(content))
              ELSE content
      out2 == IF endBlock # <<>> /\ ~includes(out1, EarlyStartMarker)
              THEN out1 \o endBlock ELSE out1
  IN IF navBlock # <<>> /\ ~includes(out2, NavStartMarker)
     THEN out2 \o navBlock ELSE out2

\* matter(raw), line 11: the front matter and the body of a file
matter(file) == [data |-> file.data, content |-> file.content]

\* matter.stringify(content, data), line 56: the body is written after the
\* front matter, and ends with a line feed. The bodies of the model do not
\* begin with a front-matter delimiter of their own.
matterStringify(content, data) ==
  [data |-> data,
   content |-> IF Len(content) > 0 /\ content[Len(content)] = NL
               THEN content ELSE Append(content, NL)]

\* lines 9-22: the posts, in the order of mdxPaths; a file without a slug
\* is skipped
PostOf(dir, path) ==
  LET parsed == matter(dir[path])
      data == parsed.data
  IN [path |-> path,
      slug |-> data.slug,
      title |-> IF data.title # <<>> THEN data.title ELSE <<data.slug>>,
      cluster |-> IF data.cluster # "" THEN data.cluster ELSE "Uncategorized",
      keywords |-> data.keywords,
      content |-> parsed.content,
      data |-> data]

PostsOf(dir, mdxPaths) ==
  LET withSlug == SelectSeq(mdxPaths, LAMBDA q : matter(dir[q]).data.slug # "")
  IN [j \in 1..Len(withSlug) |-> PostOf(dir, withSlug[j])]

\* a sort by descending score that puts peers of equal score in the reverse
\* of their order
RankedByScoreTiesReversed(clusterPosts, score) ==
  LET Before(k, j) ==
        \/ score[k].num * score[j].den > score[j].num * score[k].den
        \/ score[k].num * score[j].den = score[j].num * score[k].den /\ k > j
      Position(j) == 1 + Cardinality({k \in 1..Len(clusterPosts) : Before(k, j)})
  IN [pos \in 1..Len(clusterPosts) |->
        clusterPosts[CHOOSE j \in 1..Len(clusterPosts) : Position(j) = pos]]

\* lines 36-39: the peers by descending score; Array.prototype.sort is
\* stable, so peers of equal score keep their order
RankedByScore(clusterPosts, score) ==
  LET Before(k, j) ==
        \/ score[k].num * score[j].den > score[j].num * score[k].den
        \/ score[k].num * score[j].den = score[j].num * score[k].den /\ k < j
      Position(j) == 1 + Cardinality({k \in 1..Len(clusterPosts) : Before(k, j)})
  IN [pos \in 1..Len(clusterPosts) |->
        clusterPosts[CHOOSE j \in 1..Len(clusterPosts) : Position(j) = pos]]

Ranked(post, clusterPosts) ==
  RankedByScore(clusterPosts,
                [j \in 1..Len(clusterPosts) |-> similarity(post, clusterPosts[j])])

\* localeCompare on the slugs of the model: their alphabetical order
SlugOrder == <<"s1", "s2", "s3", "s4", "s5", "s6">>
SlugRank(slug) == PosIn(SlugOrder, slug)
localeCompare(rankA, rankB) == rankA - rankB

\* Array.prototype.sort with the comparator of line 45, over the ranks of
\* the slugs of the list; the sort is stable
SortedByRank(list, rank) ==
  LET Before(k, j) ==
        \/ localeCompare(rank[k], rank[j]) < 0
        \/ localeCompare(rank[k], rank[j]) = 0 /\ k < j
      Position(j) == 1 + Cardinality({k \in 1..Len(list) : Before(k, j)})
  IN [pos \in 1..Len(list) |-> list[CHOOSE j \in 1..Len(list) : Position(j) = pos]]

\* line 45: [...clusterPosts, post] sorted by slug
SortedBySlug(list) ==
  SortedByRank(list, [j \in 1..Len(list) |-> SlugRank(list[j].slug)])

\* lines 41-42 and 52: early, and the items the end block is built from
\* (end.length ? end : ranked.slice(0, 3))
RelatedSets(ranked) ==
  LET early == JsSlice(ranked, 0, 2)
      end == JsSlice(ranked, 2, 5)
  IN [early |-> early,
      end |-> IF Len(end) > 0 THEN end ELSE JsSlice(ranked, 0, 3)]

\* lines 50-52: the early and the end block
LinkBlocks(post, ranked) ==
  [early |-> blockWithLinks("You might also like", RelatedSets(ranked).early),
   end |-> blockWithLinks("More in " \o post.cluster, RelatedSets(ranked).end)]

\* a nav block whose prev is the post after and whose next is the post
\* before
NavBlockSwapped(post, sorted) ==
  LET idx == (CHOOSE j \in 1..Len(sorted) :
                /\ sorted[j].slug = post.slug
                /\ \A k \in 1..(j - 1) : sorted[k].slug # post.slug) - 1
      prevPost == IF idx < Len(sorted) - 1 THEN <<sorted[idx + 2]>> ELSE <<>>
      nextPost == IF idx > 0 THEN <<sorted[idx]>> ELSE <<>>
  IN prevNextBlock(prevPost, nextPost)

\* lines 45-48 and 53: the nav block
NavBlock(post, sorted) ==
  LET idx == (CHOOSE j \in 1..Len(sorted) :
                /\ sorted[j].slug = post.slug
                /\ \A k \in 1..(j - 1) : sorted[k].slug # post.slug) - 1
      prevPost == IF idx > 0 THEN <<sorted[idx]>> ELSE <<>>
      nextPost == IF idx < Len(sorted) - 1 THEN <<sorted[idx + 2]>> ELSE <<>>
  IN prevNextBlock(prevPost, nextPost)

\* a front matter written back from the fields the pass derived for its
\* own use (lines 15-19) in place of the parsed front matter
WrittenDataNormalised(post) ==
  [post.data EXCEPT !.title = post.title, !.cluster = post.cluster]

\* line 56: the front matter handed to matter.stringify is the parsed data
\* of the file, untouched
WrittenData(post) == post.data

\* lines 31-57, one iteration: the text written for a post that has peers
UpdatedFile(post, clusterPosts) ==
  LET blocks == LinkBlocks(post, Ranked(post, clusterPosts))
      navBlock == NavBlock(post, SortedBySlug(Append(clusterPosts, post)))
      updated == insertBlocks(post.content, blocks.early, blocks.end, navBlock)
  IN matterStringify(updated, WrittenData(post))

\* applyInternalLinks, lines 6-59, over the files of dir that fast-glob
\* returned as mdxPaths: every file is read before any is written, and a
\* post without a peer is not written
\* a peer list that keeps the posts of the slug of the post
ClusterPostsWithSelf(posts, post) ==
  SelectSeq(posts, LAMBDA q : q.cluster = post.cluster)

\* lines 24-33: the posts of the cluster of a post, but those of its slug
ClusterPosts(posts, post) ==
  SelectSeq(posts, LAMBDA q : q.cluster = post.cluster /\ q.slug # post.slug)

\* a writing loop that does not skip the posts without a peer
WritePostsAll(dir, posts) ==
  [path \in DOMAIN dir |->
     IF \E j \in 1..Len(posts) : posts[j].path = path
     THEN LET post == posts[CHOOSE j \in 1..Len(posts) : posts[j].path = path]
          IN UpdatedFile(post, ClusterPosts(posts, post))
     ELSE dir[path]]

\* lines 31-58: the writing loop
WritePosts(dir, posts) ==
  [path \in DOMAIN dir |->
     IF \E j \in 1..Len(posts) :
          posts[j].path = path /\ Len(ClusterPosts(posts, posts[j])) > 0
     THEN LET post == posts[CHOOSE j \in 1..Len(posts) : posts[j].path = path]
          IN UpdatedFile(post, ClusterPosts(posts, post))
     ELSE dir[path]]

applyInternalLinks(dir, mdxPaths) == WritePosts(dir, PostsOf(dir, mdxPaths))

\* the files of the model, in path order
DocPaths == <<"p1", "p2", "p3", "p4", "p5", "p6", "p7">>

\* their front matter: four posts of one cluster, whose slug order is not
\* their path order and one of which has no title (p5), a post without a
\* cluster (p3), a file without a slug (p4) and a post of a second cluster
DocData(path) ==
  CASE path = "p1" -> [slug |-> "s3", title |-> <<"Cats">>, cluster |-> "a",
                       keywords |-> <<"cats", "food">>]
    [] path = "p2" -> [slug |-> "s1", title |-> <<"Cats", "food">>, cluster |-> "a",
                       keywords |-> <<"toys">>]
    [] path = "p3" -> [slug |-> "s5", title |-> <<"food">>, cluster |-> "",
                       keywords |-> <<"food">>]
    [] path = "p4" -> [slug |-> "", title |-> <<"toys">>, cluster |-> "a",
                       keywords |-> <<>>]
    [] path = "p5" -> [slug |-> "s4", title |-> <<>>, cluster |-> "a",
                       keywords |-> <<"Cats">>]
    [] path = "p6" -> [slug |-> "s2", title |-> <<"toys">>, cluster |-> "a",
                       keywords |-> <<>>]
    [] OTHER -> [slug |-> "s6", title |-> <<"food", "toys">>, cluster |-> "b",
                 keywords |-> <<"cats">>]

\* the pieces a body is made of: a line feed, a level-2 heading at the
\* start of the text, one and two of them after a line feed, a level-3
\* heading, and the markers of an earlier application
Pieces ==
  {<<NL>>, <<"#", "#", " ", "x">>, <<NL, "#", "#", " ", "x">>,
   <<NL, "#", "#", " ", "x", NL, "#", "#", " ", "x">>,
   <<NL, "#", "#", "#", " ", "x">>, EarlyStartMarker, NavStartMarker}

RECURSIVE Concat(_)
Concat(seqs) == IF seqs = <<>> THEN <<>> ELSE Head(seqs) \o Concat(Tail(seqs))

\* the bodies of the document under study
Contents == {Concat(ps) : ps \in SeqsUpTo(Pieces, MaxPieces)}

\* the bodies of the other files
DocBody(path) ==
  CASE path = "p2" -> <<NL, "#", "#", " ", "x", NL, "#", "#", " ", "x", NL, "x", NL>>
    [] path = "p3" -> <<"x">>
    [] path = "p4" -> <<NL, "#", "#", " ", "x", NL, "#", "#", " ", "x", NL>>
    [] path = "p5" -> <<"x", NL>>
    [] path = "p6" -> <<>>
    [] OTHER -> <<"#", "#", " ", "x", NL, "#", "#", " ", "x", NL>>

\* the content directories of the model: the first files of DocPaths, the
\* first of them (p1) with any body
Directories ==
  {[path \in {DocPaths[j] : j \in 1..n} |->
      [data |-> DocData(path),
       content |-> IF path = "p1" THEN body ELSE DocBody(path)]] :
     n \in 1..MaxDocs, body \in Contents}

RECURSIVE Reverse(_)
Reverse(seq) == IF seq = <<>> THEN <<>> ELSE Append(Reverse(Tail(seq)), Head(seq))

\* line 7: fast-glob promises no order of its result; the model tries the
\* path order and its reverse
GlobOrders(dir) ==
  LET inOrder == SelectSeq(DocPaths, LAMBDA q : q \in DOMAIN dir)
  IN {inOrder, Reverse(inOrder)}

LinkInit ==
  /\ SemaphoreUnused /\ MainIdle /\ CtxIdle /\ SimIdle /\ RankIdle /\ CompIdle
  /\ contentDir \in Directories
  /\ passes = 0
  /\ afterFirst = <<>>
  /\ originalDir = contentDir
  /\ linkFault = NoFault

\* one application of applyInternalLinks to the directory; an application
\* that threw has ended the process (create-site.js 367-370)
LinkPass(mdxPaths) ==
  /\ passes < MaxPasses
  /\ linkFault = NoFault
  /\ contentDir' = applyInternalLinks(contentDir, mdxPaths)
  /\ passes' = passes + 1
  /\ afterFirst' = IF passes = 0 THEN contentDir' ELSE afterFirst
  /\ UNCHANGED <<originalDir, linkFault>>

LinkNext ==
  \E mdxPaths \in GlobOrders(contentDir) :
    LinkPass(mdxPaths) /\ UNCHANGED <<semVars, mainVars, ctxVars, simVars, rankVars, compVars>>

LinkSpec == LinkInit /\ [][LinkNext]_vars

(* C2: applying applyInternalLinks twice to the same document set leaves   *)
(* every document after the second application identical to what it was   *)
(* after the first: the second application inserts no block.               *)
C2_SecondPassIsIdentity == passes >= 2 => contentDir = afterFirst

\* the second application has run over a directory in which the first one
\* inserted an early block after the second heading of p2 and a nav block
C2_Witness ==
  /\ passes = 2
  /\ "p2" \in DOMAIN contentDir
  /\ contentDir["p2"].content # DocBody("p2")
  /\ indexOf(contentDir["p2"].content, EarlyStartMarker, 0) = 12
  /\ includes(contentDir["p2"].content, NavStartMarker)

(* ----------------------------------------------------------------------- *)
(* Claims on the images of a task                                          *)
(* ----------------------------------------------------------------------- *)

\* the step after image call number img of an iteration with f flagged
\* sections: the next inline image, or the end of the iteration
StepAfterImage(v) == IF v.img < ImagePromptCount(v.flagged) THEN "img" ELSE "end"

(* C11: with images enabled, the failure of an image call (the cover or an *)
(* inline image) never aborts the owning task: a placeholder is made at    *)
(* the path of the failed call, the remaining image calls of the task are  *)
(* still made (the step after a failed call is the one after a successful *)
(* call), and the later tasks of the batch still run (the iteration ends   *)
(* by moving to the next task of the batch).                               *)
C11_ImageFailureTolerated ==
  /\ [](\A n \in DOMAIN invs :
          invs[n].failed # {} =>
            /\ invs[n].pc = "task"
            /\ invs[n].failed \subseteq invs[n].placeholders
            /\ mpc = "await")
  /\ [][\A n \in DOMAIN invs :
          /\ (invs[n].inflight /\ invs[n].step \in ImageSteps /\ invs'[n] # invs[n])
               => /\ invs'[n].step = StepAfterImage(invs[n])
                  /\ invs'[n].img = invs[n].img + (IF StepAfterImage(invs[n]) = "img" THEN 1 ELSE 0)
          /\ (invs[n].failed # {} /\ invs[n].step = "end" /\ invs'[n] # invs[n])
               => IF invs[n].lo + invs[n].k - 1 < invs[n].hi
                  THEN /\ invs'[n].pc = "task" /\ invs'[n].step = "seo"
                       /\ invs'[n].k = invs[n].k + 1
                  ELSE invs'[n].pc = "related"]_vars

\* the cover of the first task of a batch of two failed, a placeholder was
\* made for it, and the second inline image of the task is being asked for
C11_Witness ==
  \E n \in DOMAIN invs :
    /\ invs[n].k = 1 /\ invs[n].lo < invs[n].hi
    /\ invs[n].failed = {0} /\ 0 \in invs[n].placeholders
    /\ invs[n].step = "img" /\ invs[n].img = 2 /\ invs[n].inflight

(* ----------------------------------------------------------------------- *)
(* Claims on the barrier between the batches and the linker                *)
(* ----------------------------------------------------------------------- *)

(* C12: applyInternalLinks starts only after every batch has completed:    *)
(* when main is about to call it, every invocation of processBatch has     *)
(* returned (its addRelatedLinks included), no task has a backend call in  *)
(* flight, the batches cover every planned task, and the document of every *)
(* task is in the content directory.                                       *)
C12_LinkAfterAllBatches ==
  mpc = "link" =>
    /\ \A n \in DOMAIN invs : invs[n].pc = "done" /\ ~invs[n].inflight
    /\ count = 0
    /\ \A t \in 1..Len(targetTasks) :
         /\ \E n \in DOMAIN invs : invs[n].lo <= t /\ t <= invs[n].hi
         /\ MdxFilePath(targetTasks[t]) \in DOMAIN files

\* main is about to call applyInternalLinks after two batches, one of which
\* appended a related block to a document
C12_Witness ==
  /\ mpc = "link"
  /\ Len(invs) = 2
  /\ \E q \in DOMAIN files : Len(files[q].body) = 2

(* ----------------------------------------------------------------------- *)
(* Claims on the blocks the linker inserts                                 *)
(* ----------------------------------------------------------------------- *)

\* the occurrences of needle in hay
CountOf(hay, needle) ==
  Cardinality({k \in 0..(Len(hay) - Len(needle)) :
                 \A j \in 1..Len(needle) : hay[k + j] = needle[j]})

\* the file at path is a post that has a post of its cluster with another
\* slug in dir (lines 12 and 32-33)
HasPeer(dir, path) ==
  /\ matter(dir[path]).data.slug # ""
  /\ \E q \in DOMAIN dir :
       /\ matter(dir[q]).data.slug # ""
       /\ PostOf(dir, q).cluster = PostOf(dir, path).cluster
       /\ PostOf(dir, q).slug # PostOf(dir, path).slug

\* the body holds no marker
MarkerFree(content) ==
  ~includes(content, EarlyStartMarker) /\ ~includes(content, NavStartMarker)

(* C13: after any number of applications of applyInternalLinks, every      *)
(* document that has a same-cluster peer (and held no marker before the    *)
(* first application) contains exactly one prev/next navigation block and  *)
(* exactly one related block, the early block or the end block, never      *)
(* both.                                                                   *)
C13_OneBlockOfEachKind ==
  passes >= 1 =>
    \A path \in DOMAIN contentDir :
      (HasPeer(originalDir, path) /\ MarkerFree(originalDir[path].content)) =>
        /\ CountOf(contentDir[path].content, EarlyStartMarker) = 1
        /\ CountOf(contentDir[path].content, EarlyEndMarker) = 1
        /\ CountOf(contentDir[path].content, NavStartMarker) = 1
        /\ CountOf(contentDir[path].content, NavEndMarker) = 1

\* after two applications: p1, whose body was two headings and a line feed,
\* holds the early block inside its body, and p5, without a heading, holds
\* the end block before its nav block
C13_Witness ==
  /\ passes = 2
  /\ {"p1", "p5"} \subseteq DOMAIN contentDir
  /\ originalDir["p1"].content =
       <<NL, "#", "#", " ", "x", NL, "#", "#", " ", "x", NL>>
  /\ indexOf(contentDir["p1"].content, EarlyStartMarker, 0) = 12
  /\ indexOf(contentDir["p5"].content, EarlyStartMarker, 0) = 4
  /\ indexOf(contentDir["p5"].content, NavStartMarker, 0)
       > indexOf(contentDir["p5"].content, EarlyEndMarker, 0)

\* the posts of dir that the body links to: in a list of links, as the
\* previous or as the next post
LinkTargets(dir, content) ==
  {q \in DOMAIN dir :
     /\ matter(dir[q]).data.slug # ""
     /\ \E k \in 1..Len(content) :
          content[k] \in {LinkText(PostOf(dir, q)), PrevText(PostOf(dir, q)),
                          NextText(PostOf(dir, q))}}

(* C14: every link applyInternalLinks inserts into a document (in the      *)
(* early block, the end block and the prev/next navigation) points to a    *)
(* different document of the same cluster: never to the document itself    *)
(* and never to a document of another cluster.                             *)
C14_LinksStayInCluster ==
  passes >= 1 =>
    \A path \in DOMAIN contentDir :
      \A q \in LinkTargets(contentDir, contentDir[path].content) :
        /\ q # path
        /\ PostOf(contentDir, q).slug # PostOf(contentDir, path).slug
        /\ PostOf(contentDir, q).cluster = PostOf(contentDir, path).cluster

\* p1 links to its three peers p2, p5 and p6 while the directory holds a
\* post of another cluster (p3) and a file without a slug (p4)
C14_Witness ==
  /\ passes = 1
  /\ {"p1", "p3", "p4"} \subseteq DOMAIN contentDir
  /\ LinkTargets(contentDir, contentDir["p1"].content) = {"p2", "p5", "p6"}

(* ----------------------------------------------------------------------- *)
(* SimSpec: similarity over arbitrary pairs of posts                       *)
(* ----------------------------------------------------------------------- *)

\* the words keywords and titles are made of: two of them differ by case
SimWords == {"Cats", "cats", "food"}

\* the posts similarity is applied to: any keyword list and any title, the
\* empty ones included
SimPostValues ==
  [keywords : SeqsUpTo(SimWords, MaxSimKeywords),
   title : SeqsUpTo(SimWords, MaxTitleWords)]

SimInit ==
  /\ SemaphoreUnused /\ MainIdle /\ CtxIdle /\ LinkIdle /\ RankIdle /\ CompIdle
  /\ simPosts \in SimPostValues \X SimPostValues
  /\ simScores = <<>>

\* similarity(a, b) and similarity(b, a)
SimCompute ==
  /\ simScores = <<>>
  /\ simScores' = <<similarity(simPosts[1], simPosts[2]),
                    similarity(simPosts[2], simPosts[1])>>
  /\ UNCHANGED simPosts

SimNext == SimCompute /\ UNCHANGED <<semVars, mainVars, ctxVars, linkVars, rankVars, compVars>>

SimSpec == SimInit /\ [][SimNext]_vars

(* C15: the similarity score is symmetric: for every pair of documents d   *)
(* and p, with any keyword lists and titles, the empty ones included,      *)
(* similarity(d, p) equals similarity(p, d).                               *)
C15_SimilaritySymmetric ==
  simScores # <<>> =>
    simScores[1].num * simScores[2].den = simScores[2].num * simScores[1].den

\* a score of 1/2 was computed in both orders for two posts with token sets
\* of different sizes, one of which has no keyword and the other no title
C15_Witness ==
  /\ simScores # <<>>
  /\ simPosts[1].keywords = <<>>
  /\ Len(simPosts[2].keywords) = 2 /\ simPosts[2].title = <<>>
  /\ simScores[1] = [num |-> 1, den |-> 2]
  /\ simScores[2] = [num |-> 1, den |-> 2]

\* the peers of the post at path: the posts of its cluster with another slug
PeersOf(dir, path) ==
  {q \in DOMAIN dir :
     /\ matter(dir[q]).data.slug # ""
     /\ PostOf(dir, q).cluster = PostOf(dir, path).cluster
     /\ PostOf(dir, q).slug # PostOf(dir, path).slug}

\* the peer with the greatest slug smaller than that of the post at path,
\* and the peer with the least slug greater (a set of at most one path)
SlugBefore(dir, q, path) ==
  SlugRank(PostOf(dir, q).slug) < SlugRank(PostOf(dir, path).slug)

GreatestBelow(dir, path) ==
  {q \in PeersOf(dir, path) :
     /\ SlugBefore(dir, q, path)
     /\ \A r \in PeersOf(dir, path) :
          SlugBefore(dir, r, path) => ~SlugBefore(dir, q, r)}

LeastAbove(dir, path) ==
  {q \in PeersOf(dir, path) :
     /\ SlugBefore(dir, path, q)
     /\ \A r \in PeersOf(dir, path) :
          SlugBefore(dir, path, r) => ~SlugBefore(dir, r, q)}

\* the posts the nav block of a body names as prev, and as next
PrevIn(dir, content) ==
  {q \in DOMAIN dir :
     /\ matter(dir[q]).data.slug # ""
     /\ \E k \in 1..Len(content) : content[k] = PrevText(PostOf(dir, q))}

NextIn(dir, content) ==
  {q \in DOMAIN dir :
     /\ matter(dir[q]).data.slug # ""
     /\ \E k \in 1..Len(content) : content[k] = NextText(PostOf(dir, q))}

\* the posts that get a nav block: those with a peer, whose body held no
\* nav marker before the first application
GetsNav(path) ==
  /\ HasPeer(originalDir, path)
  /\ ~includes(originalDir[path].content, NavStartMarker)

(* C16: in a cluster with distinct slugs, the prev of a document d is the  *)
(* document with the greatest slug smaller than d's and its next the       *)
(* document with the least slug greater than d's; the first document in    *)
(* slug order has no prev and the last no next, so that d.next = e exactly *)
(* when e.prev = d.                                                        *)
C16_PrevNextBySlug ==
  passes >= 1 =>
    /\ \A d \in DOMAIN contentDir :
         GetsNav(d) =>
           /\ PrevIn(contentDir, contentDir[d].content) = GreatestBelow(contentDir, d)
           /\ NextIn(contentDir, contentDir[d].content) = LeastAbove(contentDir, d)
    /\ \A d \in DOMAIN contentDir : \A e \in DOMAIN contentDir :
         (GetsNav(d) /\ GetsNav(e)) =>
           (e \in NextIn(contentDir, contentDir[d].content)
              <=> d \in PrevIn(contentDir, contentDir[e].content))

\* a cluster of three posts with slugs s1 (p2), s3 (p1) and s4 (p5): p1 names
\* p2 as prev and p5 as next, p2 has no prev and p5 no next
C16_Witness ==
  /\ passes = 1
  /\ DOMAIN contentDir = {"p1", "p2", "p3", "p4", "p5"}
  /\ PrevIn(contentDir, contentDir["p1"].content) = {"p2"}
  /\ NextIn(contentDir, contentDir["p1"].content) = {"p5"}
  /\ PrevIn(contentDir, contentDir["p2"].content) = {}
  /\ NextIn(contentDir, contentDir["p2"].content) = {"p1"}
  /\ NextIn(contentDir, contentDir["p5"].content) = {}

\* the posts of dir that are the only one of their cluster
Singletons(dir) ==
  {q \in DOMAIN dir : matter(dir[q]).data.slug # "" /\ PeersOf(dir, q) = {}}

\* dir without the file at path, and an order of its files without it
Without(dir, path) == [q \in DOMAIN dir \ {path} |-> dir[q]]
OrderWithout(mdxPaths, path) == SelectSeq(mdxPaths, LAMBDA q : q # path)

(* C17: a document that is the only one of its cluster is left unchanged   *)
(* by applyInternalLinks (no block, no write to its file), and its         *)
(* presence does not change what is computed for the other documents: the *)
(* other files are what the linker makes of the directory without it.      *)
C17_SingletonUntouched ==
  passes = 1 =>
    \A lone \in Singletons(originalDir) :
      /\ contentDir[lone] = originalDir[lone]
      /\ \E mdxPaths \in GlobOrders(originalDir) :
           /\ contentDir = applyInternalLinks(originalDir, mdxPaths)
           /\ Without(contentDir, lone) =
                applyInternalLinks(Without(originalDir, lone),
                                   OrderWithout(mdxPaths, lone))

\* the linker has run over a directory in which p3 is the only post of its
\* cluster and has no final line feed, and in which p1 got its blocks
C17_Witness ==
  /\ passes = 1
  /\ "p3" \in Singletons(originalDir)
  /\ contentDir["p3"].content = <<"x">>
  /\ contentDir["p1"] # originalDir["p1"]
  /\ includes(contentDir["p1"].content, NavStartMarker)

(* ----------------------------------------------------------------------- *)
(* Claims on the plan, the placeholder backends and the configuration      *)
(* ----------------------------------------------------------------------- *)

(* C18: whenever plan generation yields an empty or malformed plan (not a  *)
(* list, an empty list, or clusters without a keyword list), a fallback    *)
(* plan is substituted before the batch loop: a run that was asked for at  *)
(* least one post never reaches the batch loop or the linker with zero     *)
(* tasks.                                                                  *)
C18_NeverZeroTasks ==
  (mpc \in {"loop", "await", "link"} /\ cfg.maxPosts > 0) => Len(targetTasks) > 0

(* C19: with the placeholder (mock) backends selected, every backend       *)
(* operation the run invokes is provided by the placeholder               *)
(* implementation, so that a run with --no-images and --no-deploy          *)
(* completes successfully: it never ends with exit code 1.                 *)
C19_MockRunSucceeds ==
  (cfg.mock /\ ~cfg.doImages /\ ~cfg.doDeploy) => mpc # "exit1"

(* C20: a configuration error (a missing required credential for the       *)
(* generation, image or deployment backend) ends the run at startup,       *)
(* before any task's first backend call: in a run with such an error       *)
(* processBatch is never called.                                           *)
C20_ConfigErrorAtStartup ==
  (\/ ~cfg.mock /\ ~cfg.replicateToken
   \/ cfg.doDeploy /\ ~cfg.githubCreds) => invs = <<>>

(* ----------------------------------------------------------------------- *)
(* applyInternalLinks when a file operation throws                         *)
(* ----------------------------------------------------------------------- *)

\* lines 31-58 when writeFile (line 57) throws for the post at path bad:
\* the loop has written the posts before it in the order of mdxPaths, the
\* exception leaves the function, and no later post is written
WritePostsUntil(dir, mdxPaths, bad) ==
  LET full == WritePosts(dir, PostsOf(dir, mdxPaths))
  IN [path \in DOMAIN dir |->
        IF PosIn(mdxPaths, path) < PosIn(mdxPaths, bad) THEN full[path]
        ELSE dir[path]]

\* the directories of the runs in which an operation throws: the body of
\* p1 is at most one piece
FaultDirectories ==
  {d \in Directories : \E ps \in SeqsUpTo(Pieces, 1) : d["p1"].content = Concat(ps)}

LinkFaultInit ==
  /\ SemaphoreUnused /\ MainIdle /\ CtxIdle /\ SimIdle /\ RankIdle /\ CompIdle
  /\ contentDir \in FaultDirectories
  /\ passes = 0
  /\ afterFirst = <<>>
  /\ originalDir = contentDir
  /\ linkFault = NoFault

\* readFile (line 10) or matter (line 11) throws for the file at path bad:
\* the reading loop of lines 9-22 comes before every write, nothing catches
\* the exception, and no file is written
LinkReadThrows(bad) ==
  /\ passes < MaxPasses
  /\ linkFault = NoFault
  /\ bad \in DOMAIN contentDir
  /\ linkFault' = [kind |-> "read", path |-> bad]
  /\ passes' = passes + 1
  /\ afterFirst' = IF passes = 0 THEN contentDir ELSE afterFirst
  /\ UNCHANGED <<contentDir, originalDir>>

\* writeFile (line 57) throws for the post at path bad, a post with a peer
LinkWriteThrows(mdxPaths, bad) ==
  /\ passes < MaxPasses
  /\ linkFault = NoFault
  /\ bad \in DOMAIN contentDir
  /\ HasPeer(contentDir, bad)
  /\ linkFault' = [kind |-> "write", path |-> bad]
  /\ contentDir' = WritePostsUntil(contentDir, mdxPaths, bad)
  /\ passes' = passes + 1
  /\ afterFirst' = IF passes = 0 THEN contentDir' ELSE afterFirst
  /\ UNCHANGED originalDir

LinkFaultNext ==
  \/ \E mdxPaths \in GlobOrders(contentDir) :
       LinkPass(mdxPaths) /\ UNCHANGED <<semVars, mainVars, ctxVars, simVars, rankVars, compVars>>
  \/ \E bad \in DOMAIN contentDir :
       LinkReadThrows(bad) /\ UNCHANGED <<semVars, mainVars, ctxVars, simVars, rankVars, compVars>>
  \/ \E mdxPaths \in GlobOrders(contentDir), bad \in DOMAIN contentDir :
       LinkWriteThrows(mdxPaths, bad) /\ UNCHANGED <<semVars, mainVars, ctxVars, simVars, rankVars, compVars>>

LinkFaultSpec == LinkFaultInit /\ [][LinkFaultNext]_vars

(* C21: if reading, parsing or writing one document fails during a pass of *)
(* the linker, only that document is skipped: every other document that    *)
(* has a same-cluster peer among the other documents still holds its       *)
(* navigation block when the pass has ended.                               *)
C21_FaultSkipsOneDocument ==
  linkFault # NoFault =>
    \A path \in DOMAIN contentDir \ {linkFault.path} :
      HasPeer(Without(contentDir, linkFault.path), path) =>
        includes(contentDir[path].content, NavStartMarker)

(* ----------------------------------------------------------------------- *)
(* Claims on the end of the run                                            *)
(* ----------------------------------------------------------------------- *)

(* C22: the deployment steps (repository creation, push, hosting-project   *)
(* creation) are each invoked at most once per run, in that order, only    *)
(* after the linker has been applied, and none of them is invoked when     *)
(* --no-deploy is given.                                                   *)
C22_DeployOnceAfterLink ==
  /\ IsPrefix(collabLog, <<"link", "repo", "push", "vercel">>)
  /\ ~cfg.doDeploy => IsPrefix(collabLog, <<"link">>)

\* a run with deployment has ended after its three deployment steps
C22_Witness ==
  /\ mpc = "done" /\ cfg.doDeploy
  /\ collabLog = <<"link", "repo", "push", "vercel">>
  /\ Len(targetTasks) = 2

(* ----------------------------------------------------------------------- *)
(* Claims on the progress and the accounting of the semaphore              *)
(* ----------------------------------------------------------------------- *)

(* C23: provided every admitted operation eventually finishes, every       *)
(* caller waiting in the queue is eventually admitted and eventually       *)
(* returns; no wake-up is lost (a woken caller eventually runs), and while *)
(* a caller is queued some operation is running or some woken caller is    *)
(* about to run.                                                           *)
C23_WaitersProgress ==
  /\ [](queue # <<>> => \E d \in Callers : cstate[d] \in {"running", "woken"})
  /\ \A c \in Callers : (cstate[c] = "waiting") ~> (cstate[c] = "running")
  /\ \A c \in Callers : (cstate[c] = "woken") ~> (cstate[c] = "running")
  /\ \A c \in Callers : (cstate[c] = "waiting") ~> (cstate[c] = "done")

\* two callers waited in the queue; both were woken, ran and returned
C23_Witness ==
  \E c \in Callers : \E d \in Callers :
    /\ c # d
    /\ wokenBy[c] # 0 /\ cstate[c] = "done"
    /\ wokenBy[d] = c /\ cstate[d] = "done"

(* ----------------------------------------------------------------------- *)
(* Claims on the markers, the ranking and the place of the blocks          *)
(* ----------------------------------------------------------------------- *)

(* C24: the three kinds of link block are each wrapped in their own marker *)
(* pair, so the text of an end block does not contain the start marker of  *)
(* the early block: a document that held no marker and has fewer than two  *)
(* top-level headings, into which no early block is inserted, holds no     *)
(* early start marker after the linker has been applied.                   *)
C24_EndBlockOwnMarker ==
  passes >= 1 =>
    \A path \in DOMAIN contentDir :
      (/\ MarkerFree(originalDir[path].content)
       /\ nthIndexOf(originalDir[path].content, H2Needle, 2) = -1)
        => ~includes(contentDir[path].content, EarlyStartMarker)

(* ----------------------------------------------------------------------- *)
(* Claims on the continuity context                                        *)
(* ----------------------------------------------------------------------- *)

(* C25: for every content part k > 1 (part 2 as well as part 3), the       *)
(* continuity context handed to the backend (the previousContent argument  *)
(* of generateContentPart) is made of the parts generated before it and is *)
(* never longer than the window of 6000 characters, whatever the lengths   *)
(* of the earlier parts.                                                   *)
C25_ContextWithinWindow ==
  ctxpc \in {"part2", "part3"} =>
    /\ StrLen(previousContent) <= ContextWindow
    /\ ctxpc = "part2" => previousContent = StrSlice(part1, 0, StrLen(previousContent))
    /\ ctxpc = "part3" =>
         previousContent = StrSlice(Template(part1, part2), 0, StrLen(previousContent))

(* ----------------------------------------------------------------------- *)
(* RankSpec: the ranking of the peers of a post and its related sets       *)
(* ----------------------------------------------------------------------- *)

\* the post whose peers are ranked
RankedPost == [slug |-> "s0", title |-> <<"cats", "food">>, keywords |-> <<>>]

\* the titles of the peers: their scores against the post are 1, 1/2 and 0
PeerTitles == {<<"Cats", "food">>, <<"cats">>, <<"toys">>}

\* the peer lists: the j-th peer has the slug of its place in the list
PeerLists ==
  {[j \in 1..Len(titles) |->
      [slug |-> "s" \o ToString(j), title |-> titles[j], keywords |-> <<>>]] :
     titles \in SeqsUpTo(PeerTitles, MaxPeers)}

RankInit ==
  /\ SemaphoreUnused /\ MainIdle /\ CtxIdle /\ LinkIdle /\ SimIdle /\ CompIdle
  /\ rankPost = RankedPost
  /\ rankPeers \in PeerLists
  /\ rankOut = <<>>

\* lines 36-42 and 52 for a post with at least one peer (line 33)
RankCompute ==
  /\ rankOut = <<>>
  /\ Len(rankPeers) > 0
  /\ LET ranked == Ranked(rankPost, rankPeers)
     IN rankOut' = [ranked |-> ranked,
                    early |-> RelatedSets(ranked).early,
                    end |-> RelatedSets(ranked).end]
  /\ UNCHANGED <<rankPost, rankPeers>>

RankNext == RankCompute /\ UNCHANGED <<semVars, mainVars, ctxVars, linkVars, simVars, compVars>>

RankSpec == RankInit /\ [][RankNext]_vars

\* peer a scores more than peer b against the post of the model, counted
\* on its tokens cats and food
TokensOf(peer) == {ToLowerCase(peer.title[j]) : j \in 1..Len(peer.title)}
Shared(peer) == Cardinality(TokensOf(peer) \cap {"cats", "food"})
Union(peer) == Cardinality(TokensOf(peer) \cup {"cats", "food"})
ScoresMore(a, b) == Shared(a) * Union(b) > Shared(b) * Union(a)
ScoresSame(a, b) == Shared(a) * Union(b) = Shared(b) * Union(a)

(* C26: the same-cluster peers of a document are ranked by descending      *)
(* similarity with ties kept in input order; the early related set is the  *)
(* first 2 ranked peers, the end related set is ranks 3 to 5, and when     *)
(* there are no peers at ranks 3 to 5 the end set is the top 3 ranked      *)
(* peers instead.                                                          *)
C26_RankedRelatedSets ==
  rankOut # <<>> =>
    LET ranked == rankOut.ranked
        n == Len(rankPeers)
        Place(peer) == CHOOSE j \in 1..n : rankPeers[j] = peer
    IN /\ Len(ranked) = n
       /\ \A j \in 1..n : \E k \in 1..n : ranked[k] = rankPeers[j]
       /\ \A j \in 1..n : \A k \in (j + 1)..n :
            \/ ScoresMore(ranked[j], ranked[k])
            \/ ScoresSame(ranked[j], ranked[k]) /\ Place(ranked[j]) < Place(ranked[k])
       /\ rankOut.early = [j \in 1..(IF n < 2 THEN n ELSE 2) |-> ranked[j]]
       /\ rankOut.end =
            IF n >= 3
            THEN [j \in 1..((IF n < 5 THEN n ELSE 5) - 2) |-> ranked[j + 2]]
            ELSE [j \in 1..n |-> ranked[j]]

\* six peers were ranked: the third of the list, the only one that scores
\* 1, comes first, the peers that score 1/2 follow in their input order, then
\* those that score 0 in theirs; the end set is ranks 3 to 5 and leaves out
\* the peer ranked sixth
C26_Witness ==
  /\ rankOut # <<>>
  /\ Len(rankPeers) = 6
  /\ [j \in 1..6 |-> rankPeers[j].title] =
       <<<<"toys">>, <<"cats">>, <<"Cats", "food">>, <<"cats">>, <<"toys">>, <<"cats">>>>
  /\ [j \in 1..6 |-> rankOut.ranked[j].slug] = <<"s3", "s2", "s4", "s6", "s1", "s5">>
  /\ [j \in 1..3 |-> rankOut.end[j].slug] = <<"s4", "s6", "s1">>
  /\ Len(rankOut.early) = 2

(* ----------------------------------------------------------------------- *)
(* Claims on the place of the early block                                  *)
(* ----------------------------------------------------------------------- *)

\* the places (counted from 1) at which a line of the body begins with the
\* mark of a top-level heading, "## "
HeadingStarts(content) ==
  {k \in 1..(Len(content) - 2) :
     /\ k = 1 \/ content[k - 1] = NL
     /\ content[k] = "#" /\ content[k + 1] = "#" /\ content[k + 2] = " "}

\* the place of the second of them
SecondHeading(content) ==
  CHOOSE k \in HeadingStarts(content) :
    Cardinality({h \in HeadingStarts(content) : h < k}) = 1

\* the number of characters of the body up to the end of the line that
\* begins at place k, its line feed not included
LineEnd(content, k) ==
  IF \E e \in k..Len(content) : content[e] = NL
  THEN (CHOOSE e \in k..Len(content) :
          content[e] = NL /\ \A d \in k..(e - 1) : content[d] # NL) - 1
  ELSE Len(content)

\* the beginning of an early block, up to its title
EarlyBlockStart ==
  <<NL, NL>> \o EarlyStartMarker \o <<NL, NL, "#", "#", "#", " ", "You might also like">>

(* C27: when the early block is inserted it is placed immediately after    *)
(* the line of the second top-level section heading of the body, and the   *)
(* original body text is preserved in order on both sides of it; when the  *)
(* body has fewer than two top-level headings, no early block is inserted. *)
C27_EarlyBlockAfterSecondHeading ==
  passes = 1 =>
    \A path \in DOMAIN contentDir :
      LET before == originalDir[path].content
          after == contentDir[path].content
          at == indexOf(after, EarlyBlockStart, 0)
          blockEnd == indexOf(after, EarlyEndMarker \o <<NL>>, at) + Len(EarlyEndMarker) + 1
      IN (MarkerFree(before) /\ at # -1) =>
           /\ Cardinality(HeadingStarts(before)) >= 2
           /\ at = LineEnd(before, SecondHeading(before))
           /\ JsSlice(after, 0, at) = JsSlice(before, 0, at)
           /\ JsSlice(after, blockEnd, blockEnd + Len(before) - at)
                = JsSlice(before, at, Len(before))

(* ----------------------------------------------------------------------- *)
(* Claims on the batch loop                                                *)
(* ----------------------------------------------------------------------- *)

(* C28: for any task list and any configured batch size, the batch loop    *)
(* terminates after passing every task to processBatch exactly once, in    *)
(* planner order, in consecutive batches of at most batch-size tasks: the  *)
(* batches follow one another through the task list, none is empty, every  *)
(* pass of the loop moves its variable forward, and when the loop is left  *)
(* the last batch ended with the last task.                                *)
C28_BatchLoopCoversTasks ==
  /\ [](\A n \in DOMAIN invs :
          /\ invs[n].lo = IF n = 1 THEN 1 ELSE invs[n - 1].hi + 1
          /\ invs[n].lo <= invs[n].hi
          /\ invs[n].hi <= Len(targetTasks)
          /\ BatchLen(invs[n]) <= cfg.batchSize)
  /\ [](mpc = "link" =>
          IF invs = <<>> THEN Len(targetTasks) = 0
          ELSE invs[Len(invs)].hi = Len(targetTasks))
  /\ [][(mpc = "await" /\ mpc' = "loop") => i' > i]_vars

(* ----------------------------------------------------------------------- *)
(* Claims on the count of the semaphore                                    *)
(* ----------------------------------------------------------------------- *)

(* C29: in every reachable state the count of the semaphore equals the     *)
(* number of operations inside their execution body and is never negative; *)
(* whenever no operation is running and no caller is waiting or woken,     *)
(* count is 0 and the queue is empty, whether the operations ended by      *)
(* returning or by raising.                                                *)
C29_CountIsRunning ==
  /\ count = Cardinality(Running)
  /\ count >= 0
  /\ (\A c \in DOMAIN cstate : cstate[c] \in {"idle", "done"}) =>
       count = 0 /\ queue = <<>> /\ jobs = <<>>

\* every caller has ended, one by raising and one by returning; one of them
\* had waited in the queue and was woken by an operation that raised
C29_Witness ==
  /\ \A c \in DOMAIN cstate : cstate[c] = "done"
  /\ \E c \in DOMAIN cstate : outcome[c] = "ok"
  /\ \E c \in DOMAIN cstate :
       wokenBy[c] # 0 /\ outcome[wokenBy[c]] = "err"
  /\ count = 0

(* ----------------------------------------------------------------------- *)
(* ComposeSpec: composeMdxBody and the inline images of a task             *)
(* ----------------------------------------------------------------------- *)

\* the items of the body composeMdxBody writes: a heading (line 239), an
\* image reference with its alt text and its number (lines 249 and 268) and
\* a generated part (line 256)
Heading(title) == [kind |-> "h2", text |-> title, n |-> 0]
ImageRef(alt, imgIndex) == [kind |-> "img", text |-> alt, n |-> imgIndex]
PartText(k) == [kind |-> "part", text |-> "", n |-> k]

\* a number taken before the prompt is pushed
ImgIndexBeforePush(prompts) == Len(prompts) - 1

\* lines 248 and 267: const imgIndex = imagePrompts.length, after the push
ImgIndex(prompts) == Len(prompts)

\* line 245: sec.imagePrompt || `${sec.title} - detailed, ...`
SectionPrompt(sec) ==
  IF sec.imagePrompt # "" THEN sec.imagePrompt ELSE sec.title \o " - detailed"

\* lines 238-251: the sections; a section is illustrated when its
\* suggestImage is the value true itself
RECURSIVE ComposeSections(_, _)
ComposeSections(secs, acc) ==
  IF secs = <<>> THEN acc
  ELSE LET sec == Head(secs)
           md1 == Append(acc.md, Heading(sec.title))
           prompts1 == Append(acc.prompts, SectionPrompt(sec))
       IN IF sec.suggestImage = "true"
          THEN ComposeSections(Tail(secs),
                 [md |-> Append(md1, ImageRef(sec.title, ImgIndex(prompts1))),
                  prompts |-> prompts1])
          ELSE ComposeSections(Tail(secs), [md |-> md1, prompts |-> acc.prompts])

\* lines 259-262: the title of section min(i, length - 1), or ''
LastTitle(outline, k) ==
  IF outline.isArray /\ Len(outline.sections) > 0
  THEN outline.sections[(IF k < Len(outline.sections) - 1
                         THEN k ELSE Len(outline.sections) - 1) + 1].title
  ELSE ""

\* lines 263-265: the prompt of an inter-part image
InterPartPrompt(lastTitle) ==
  IF lastTitle # "" THEN lastTitle \o " - contextual"
  ELSE "Illustration related to keyword"

\* line 268: lastTitle || `Illustration for ${keyword}`
InterPartAlt(lastTitle) ==
  IF lastTitle # "" THEN lastTitle ELSE "Illustration for keyword"

\* lines 255-270: the parts, from parts[k] on
RECURSIVE ComposeParts(_, _, _)
ComposeParts(outline, k, acc) ==
  IF k >= TotalParts THEN acc
  ELSE LET md1 == Append(acc.md, PartText(k + 1))
           prompts1 == Append(acc.prompts, InterPartPrompt(LastTitle(outline, k)))
       IN IF k < TotalParts - 1
          THEN ComposeParts(outline, k + 1,
                 [md |-> Append(md1, ImageRef(InterPartAlt(LastTitle(outline, k)),
                                              ImgIndex(prompts1))),
                  prompts |-> prompts1])
          ELSE ComposeParts(outline, k + 1, [md |-> md1, prompts |-> acc.prompts])

\* composeMdxBody, lines 233-272
composeMdxBody(outline) ==
  LET composed ==
        ComposeParts(outline, 0,
          ComposeSections(IF outline.isArray THEN outline.sections ELSE <<>>,
                          [md |-> <<>>, prompts |-> <<>>]))
  IN [mdxBody |-> composed.md, imagePrompts |-> composed.prompts]

\* a section of an outline: its title (one of two, or missing), its
\* suggestImage (true, false, or another value such as the string "true")
\* and its imagePrompt (which may be missing)
SectionValues ==
  [title : {"a", "b", ""}, suggestImage : {"true", "false", "other"}, imagePrompt : {"", "p"}]

\* the outlines: with a sections array, or without one
OutlineValues ==
  {[isArray |-> TRUE, sections |-> secs] : secs \in SeqsUpTo(SectionValues, MaxSections)}
  \cup {[isArray |-> FALSE, sections |-> <<>>]}

ComposeInit ==
  /\ SemaphoreUnused /\ MainIdle /\ CtxIdle /\ LinkIdle /\ SimIdle /\ RankIdle
  /\ comppc = "compose"
  /\ compOutline \in OutlineValues
  /\ compDoImages \in BOOLEAN
  /\ mdxBody = <<>> /\ imagePrompts = <<>> /\ imgLoopIdx = 0
  /\ imageCalls = <<>> /\ imageFiles = <<>>

\* processBatch, lines 166 and 185: the body is composed
Compose ==
  /\ comppc = "compose"
  /\ mdxBody' = composeMdxBody(compOutline).mdxBody
  /\ imagePrompts' = composeMdxBody(compOutline).imagePrompts
  /\ comppc' = IF compDoImages THEN "images" ELSE "done"
  /\ UNCHANGED <<compOutline, compDoImages, imgLoopIdx, imageCalls, imageFiles>>

\* lines 199-207, one pass of the loop: generateAndSaveWebp is called with
\* imagePrompts[idx] and img<idx + 1>.webp; it writes the file, or it throws
\* and createPlaceholder writes a placeholder to the same path
ComposeImage(o) ==
  /\ comppc = "images"
  /\ imgLoopIdx < Len(imagePrompts)
  /\ imageCalls' = Append(imageCalls, [outputPath |-> imgLoopIdx + 1,
                                       prompt |-> imagePrompts[imgLoopIdx + 1]])
  /\ imageFiles' = [f \in DOMAIN imageFiles \cup {imgLoopIdx + 1} |->
                      IF f = imgLoopIdx + 1
                      THEN (IF o = "ok" THEN "image" ELSE "placeholder")
                      ELSE imageFiles[f]]
  /\ imgLoopIdx' = imgLoopIdx + 1
  /\ comppc' = IF imgLoopIdx' < Len(imagePrompts) THEN "images" ELSE "done"
  /\ UNCHANGED <<compOutline, compDoImages, mdxBody, imagePrompts>>

ComposeNext ==
  \/ Compose /\ UNCHANGED <<semVars, mainVars, ctxVars, linkVars, simVars, rankVars>>
  \/ \E o \in {"ok", "err"} :
       ComposeImage(o) /\ UNCHANGED <<semVars, mainVars, ctxVars, linkVars, simVars, rankVars>>

ComposeSpec == ComposeInit /\ [][ComposeNext]_vars

\* the sections of the outline that are flagged for an image
FlaggedSections ==
  IF compOutline.isArray
  THEN SelectSeq(compOutline.sections, LAMBDA sec : sec.suggestImage = "true")
  ELSE <<>>

\* the image references of the body, in document order, and the place of
\* the j-th of them in the body
ImageRefs == SelectSeq(mdxBody, LAMBDA item : item.kind = "img")
PlaceOfRef(j) ==
  CHOOSE at \in 1..Len(mdxBody) :
    /\ mdxBody[at].kind = "img"
    /\ Cardinality({b \in 1..at : mdxBody[b].kind = "img"}) = j

(* C30: for any outline, the inline image references of the composed body  *)
(* are numbered 1..n consecutively, without gaps or repeats, in document   *)
(* order (those of the flagged outline sections first, each after the      *)
(* heading of a section, then the inter-part images, each after a part),   *)
(* with n = the number of flagged sections + 2; and with images enabled    *)
(* the inline image files requested for the task are exactly img1..imgn,   *)
(* the i-th from the prompt of the i-th reference.                         *)
C30_InlineImagesNumbered ==
  comppc \in {"images", "done"} =>
    LET flaggedCount == Len(FlaggedSections)
        n == flaggedCount + 2
    IN /\ Len(ImageRefs) = n
       /\ Len(imagePrompts) = n
       /\ \A j \in 1..n : ImageRefs[j].n = j
       /\ \A j \in 1..flaggedCount :
            /\ mdxBody[PlaceOfRef(j) - 1] = Heading(FlaggedSections[j].title)
            /\ imagePrompts[j] \in {FlaggedSections[j].imagePrompt,
                                     FlaggedSections[j].title \o " - detailed"}
       /\ \A j \in (flaggedCount + 1)..n :
            /\ mdxBody[PlaceOfRef(j) - 1] = PartText(j - flaggedCount)
            /\ imagePrompts[j] \in {"a - contextual", "b - contextual",
                                     "Illustration related to keyword"}
       /\ \A j \in DOMAIN imageCalls :
            imageCalls[j] = [outputPath |-> j, prompt |-> imagePrompts[j]]
       /\ DOMAIN imageFiles = 1..Len(imageCalls)
       /\ (comppc = "done" /\ compDoImages) => Len(imageCalls) = n
       /\ ~compDoImages => imageCalls = <<>>

\* a task with images whose outline has two sections, the second one
\* flagged and with a prompt of its own: three references, three files, the
\* second of them a placeholder
C30_Witness ==
  /\ comppc = "done" /\ compDoImages
  /\ compOutline.isArray /\ Len(compOutline.sections) = 2
  /\ compOutline.sections[1].suggestImage = "other"
  /\ compOutline.sections[2].suggestImage = "true"
  /\ imagePrompts = <<"p", "a - contextual", "a - contextual">>
  /\ [j \in 1..Len(mdxBody) |-> mdxBody[j].n] = <<0, 0, 1, 1, 2, 2, 3, 3>>
  /\ imageFiles = <<"image", "placeholder", "image">>

NearestTitle(at) ==
  LET above == {b \in 1..(at - 1) : mdxBody[b].kind = "h2"}
  IN IF above = {} THEN ""
     ELSE mdxBody[CHOOSE b \in above : \A c \in above : c <= b].text

(* C32: the composed body ends with the three parts, with exactly one      *)
(* image reference after the first and one after the second and none after *)
(* the third, and the prompt of each of the two is built from the title of *)
(* the nearest section heading above it in the body (the generic           *)
(* keyword-based prompt when there is none, or when that title is empty).  *)
C32_InterPartImageContext ==
  comppc \in {"images", "done"} =>
    LET n == Len(mdxBody)
        np == Len(imagePrompts)
    IN /\ n >= 5 /\ np >= 2
       /\ mdxBody[n - 4] = PartText(1)
       /\ mdxBody[n - 3].kind = "img"
       /\ mdxBody[n - 2] = PartText(2)
       /\ mdxBody[n - 1].kind = "img"
       /\ mdxBody[n] = PartText(3)
       /\ \A b \in 1..n : mdxBody[b].kind = "part" => b >= n - 4
       /\ imagePrompts[np - 1] = InterPartPrompt(NearestTitle(n - 3))
       /\ imagePrompts[np] = InterPartPrompt(NearestTitle(n - 1))

(* C33: within one run every capability is served by one implementation:   *)
(* in a run with the placeholder backend no call is made through the       *)
(* executor of the real client, and in a run with the real backend the     *)
(* plan the tasks are drawn from is never the plan of the placeholder      *)
(* client.                                                                 *)
C33_OneBackendPerRun ==
  /\ cfg.mock => \A c \in DOMAIN cstate : cstate[c] = "idle"
  /\ ~cfg.mock => plan # MockSitePlan(FallbackClusters)

\* how many times a text occurs in the body of a document
Occurrences(body, text) == Cardinality({b \in DOMAIN body : body[b] = text})

(* C34: every document of a run begins with the text its task wrote and    *)
(* never holds more than one related-links block or more than one block of *)
(* the linker, and once the linker has run every document has been         *)
(* modified exactly twice: it is the text of its task, then the block of   *)
(* addRelatedLinks, then the blocks of applyInternalLinks.                 *)
C34_TwoGatedModifications ==
  \A path \in DOMAIN files :
    /\ files[path].body[1] = "document"
    /\ Occurrences(files[path].body, "document") = 1
    /\ Occurrences(files[path].body, "related") <= 1
    /\ Occurrences(files[path].body, "links") <= 1
    /\ collabLog # <<>> => files[path].body = <<"document", "related", "links">>

(* C35: in a run every backend call in flight holds exactly one slot of    *)
(* the executor and no other: count is the number of calls in flight, no   *)
(* call waits for a slot (one held by its own caller included), and every  *)
(* generation call of main and of a task is running from the moment it is  *)
(* made, so that its return or its failure ends it, with max = 1 too.      *)
C35_OneSlotPerCall ==
  /\ count = Cardinality({c \in DOMAIN cstate : cstate[c] = "running"})
  /\ count <= max
  /\ queue = <<>> /\ jobs = <<>>
  /\ \A c \in DOMAIN cstate : cstate[c] \in {"idle", "running", "done"}
  /\ \A n \in DOMAIN invs :
       (invs[n].pc = "task" /\ invs[n].inflight /\ invs[n].step \in TextSteps)
         => cstate[n] = "running"
  /\ (mpc \in {"brand", "static", "sitePlan"} /\ cstate[0] # "running")
       => count = 0

\* with --concurrency 1, after the JSON completions of main and of the
\* task (brand, plan, seo, outline) the third content part of a task is in
\* flight, holding the one slot
C35_Witness ==
  /\ max = 1 /\ count = 1
  /\ \E n \in DOMAIN invs :
       /\ invs[n].pc = "task" /\ invs[n].inflight /\ invs[n].step = "part3"
       /\ cstate[n] = "running"
  /\ cstate[0] = "done"

====
